---- MODULE Spec2Model ----
(***************************************************************************)
(* Album du jour: the image composition and layout engine.                 *)
(*                                                                         *)
(* The module models truncate_text (the text fitter) as a step machine     *)
(* (SpecFit) and create_album_display (the layout composer, in its two     *)
(* copies: the Inky one and the macOS one) as a step machine over one      *)
(* album record (Spec).                                                    *)
(*                                                                         *)
(* A text is a sequence of one-character strings.  A font is the table of  *)
(* the glyph metrics PIL reports for it: the advance of each glyph class,  *)
(* the left bearing of a non-empty text (bbox[0]) and the height of the    *)
(* badge label (bbox[3] - bbox[1]).  The metrics are written at the scale  *)
(* of the pixel budgets of the layout, so that texts of a few characters   *)
(* reach every fit / overflow case.                                        *)
(***************************************************************************)
EXTENDS Integers, Sequences, FiniteSets, TLC

VARIABLES
    \* truncate_text, one call
    fit_pc,          \* "idle" | "check" | "loop" | "done"
    fit_orig,        \* the text passed in
    fit_text,        \* the local variable text
    fit_max_width,   \* max_width
    fit_font,        \* font
    fit_removed,     \* number of executions of text = text[:-1]
    fit_result,      \* the value returned
    \* create_album_display, one call
    variant,         \* "inky" | "macos": which copy of the composer runs
    font,            \* the metrics of the font family load_font finds
    album_data,      \* the album record
    pc,              \* position in create_album_display
    img_size,        \* size of img
    cover,           \* what was pasted at (30, 90)
    y_pos,           \* y_pos
    title_lines,     \* title_lines as drawn
    track_i,         \* number of track rows already drawn
    drawn,           \* the draw.text calls on img, in order
    qr_box,          \* the box the QR code was pasted into, or NoBox
    error,           \* "" or the step whose exception left create_album_display
    \* main, around create_album_display
    main_pc,         \* "idle" | "compose" | "save" | "display" | "finish" | "exited"
    saved,           \* img.save(output_path) has written the file
    displayed,       \* the panel shows the image
    exit_status,     \* the status the process ended with, -1 while it runs
    prev,            \* what the previous call of create_album_display returned
    \* one call each of the other functions
    date_call,       \* format_date
    quant_call,      \* process_cover_for_eink
    up_call,         \* PlaylistManager.get_user_playlists
    pa_call,         \* SpotifyAlbumFetcher.get_playlist_albums
    env_call,        \* update_env_file
    ra_call,         \* SpotifyAlbumFetcher.get_random_album_from_playlist
    sel_call,        \* main of the playlist selector
    inky_call        \* display_on_inky

fit_vars == <<fit_pc, fit_orig, fit_text, fit_max_width, fit_font,
              fit_removed, fit_result>>
cad_vars == <<variant, font, album_data, pc, img_size, cover, y_pos,
              title_lines, track_i, drawn, qr_box, error>>
main_vars == <<main_pc, saved, displayed, exit_status, prev>>
more_vars == <<ra_call, sel_call, inky_call>>
call_vars == <<date_call, quant_call, up_call, pa_call, env_call, more_vars>>
vars == <<fit_vars, cad_vars, main_vars, call_vars>>

\* what a step of truncate_text, and a step of create_album_display, leave alone
fit_frame == <<cad_vars, main_vars, call_vars>>
cad_frame == <<fit_vars, main_vars, call_vars>>

----------------------------------------------------------------------------
(* Bounds of the model *)

MaxTextLen == 4
MaxWidthSteps == 40
MaxTitleLen == 5
MaxTracks == 6
MaxShortTracks == 2

----------------------------------------------------------------------------
(* Layout constants *)

WIDTH == 800
HEIGHT == 480
COVER_WIDTH == 360
INFO_WIDTH == 440

----------------------------------------------------------------------------
(* Texts and glyph metrics *)

Chars == {"a", "W", " "}

RECURSIVE TextsUpTo(_, _)
TextsUpTo(S, n) ==
    IF n = 0 THEN {<<>>}
    ELSE LET shorter == TextsUpTo(S, n - 1)
         IN  shorter \cup {Append(t, c) : t \in {u \in shorter : Len(u) = n - 1}, c \in S}

Fonts ==
    { [narrow |-> 60, wide |-> 120, sp |-> 40, dot |-> 30,  lb |-> 0,  bh |-> 8],
      [narrow |-> 70, wide |-> 280, sp |-> 50, dot |-> 100, lb |-> 10, bh |-> 9],
      [narrow |-> 50, wide |-> 280, sp |-> 30, dot |-> 20,  lb |-> 10, bh |-> 9] }

Adv(c, f) ==
    CASE c = " " -> f.sp
      [] c = "." -> f.dot
      [] c = "W" -> f.wide
      [] OTHER   -> f.narrow

RECURSIVE AdvSum(_, _)
AdvSum(text, f) ==
    IF text = <<>> THEN 0 ELSE Adv(Head(text), f) + AdvSum(Tail(text), f)

\* draw.textbbox((x, y), text, font): left is bbox[0], right is bbox[2]
textbbox(x, text, f) ==
    IF text = <<>> THEN [left |-> x, right |-> x]
    ELSE [left |-> x + f.lb, right |-> x + AdvSum(text, f)]

\* the rendered width truncate_text measures: textbbox((0, 0), text)[2]
RenderedWidth(text, f) == textbbox(0, text, f).right

Ellipsis == <<".", ".", ".">>

ButLastMutTwo(text) == SubSeq(text, 1, IF Len(text) >= 2 THEN Len(text) - 2 ELSE 0)

\* text[:-1]
ButLast(text) == SubSeq(text, 1, Len(text) - 1)

EndsWith(text, suffix) ==
    /\ Len(text) >= Len(suffix)
    /\ SubSeq(text, Len(text) - Len(suffix) + 1, Len(text)) = suffix

----------------------------------------------------------------------------
(* truncate_text *)

FitsMutLt(text, max_width, f) == textbbox(0, text, f).right < max_width

\* if draw.textbbox((0, 0), text, font=font)[2] <= max_width
Fits(text, max_width, f) == textbbox(0, text, f).right <= max_width

LoopCondMutNoEllipsis(text, max_width, f) ==
    textbbox(0, text, f).right > max_width /\ Len(text) > 0

LoopCondMutNoLen(text, max_width, f) ==
    textbbox(0, text \o Ellipsis, f).right > max_width

\* while draw.textbbox((0, 0), text + '...', font=font)[2] > max_width and len(text) > 0
LoopCond(text, max_width, f) ==
    textbbox(0, text \o Ellipsis, f).right > max_width /\ Len(text) > 0

\* return text + '...' if text else '...'
TruncReturn(text) == IF text # <<>> THEN text \o Ellipsis ELSE Ellipsis

RECURSIVE StripLoop(_, _, _)
StripLoop(text, max_width, f) ==
    IF LoopCond(text, max_width, f)
    THEN StripLoop(ButLast(text), max_width, f)
    ELSE text

truncate_text(text, max_width, f) ==
    IF Fits(text, max_width, f) THEN text
    ELSE TruncReturn(StripLoop(text, max_width, f))

\* the values of the composer's variables while no composition runs
NoAlbum ==
    [title |-> <<>>, artist |-> <<>>, release_date |-> <<>>, cover_url |-> <<>>,
     tracks |-> <<>>, spotify_url |-> <<>>]
NoBox == [x |-> 0, y |-> 0, w |-> 0, h |-> 0]

\* no call of create_album_display has returned yet
NoResult ==
    [outcome |-> "none", img_size |-> <<0, 0>>, cover |-> "none", drawn |-> <<>>,
     qr_box |-> NoBox]

\* the entry point is not running
MainIdle ==
    /\ main_pc = "idle"
    /\ saved = FALSE
    /\ displayed = FALSE
    /\ exit_status = -1
    /\ prev = NoResult

\* no call of the other functions is running
NoDateCall == [pc |-> "idle", date_str |-> <<>>, result |-> <<>>]
NoQuantCall ==
    [pc |-> "idle", call |-> 0, cover |-> <<>>, idx |-> <<>>, errs |-> <<>>, first |-> <<>>]
NoUpCall ==
    [pc |-> "idle", username |-> "", limit |-> 0, offset |-> 0, fetched |-> 0,
     playlists |-> <<>>]
NoPaCall ==
    [pc |-> "idle", offset |-> 0, fetched |-> 0, items |-> <<>>, next |-> FALSE, i |-> 0,
     albums |-> <<>>]
NoEnvCall ==
    [pc |-> "idle", playlist_id |-> <<>>, before |-> <<>>, file |-> <<>>, env_lines |-> <<>>]

NoRaCall == [pc |-> "idle"]
NoSelCall == [pc |-> "idle"]
NoInkyCall == [pc |-> "idle"]

MoreIdle ==
    /\ ra_call = NoRaCall
    /\ sel_call = NoSelCall
    /\ inky_call = NoInkyCall

CallsIdle ==
    /\ date_call = NoDateCall
    /\ quant_call = NoQuantCall
    /\ up_call = NoUpCall
    /\ pa_call = NoPaCall
    /\ env_call = NoEnvCall
    /\ MoreIdle

FitTexts == TextsUpTo(Chars, MaxTextLen)
FitWidths == {10 * k : k \in 0..MaxWidthSteps}

\* no font is loaded
NoFont == [narrow |-> 0, wide |-> 0, sp |-> 0, dot |-> 0, lb |-> 0, bh |-> 0]

\* no call of truncate_text is running
FitIdle ==
    /\ fit_pc = "idle"
    /\ fit_orig = <<>>
    /\ fit_text = <<>>
    /\ fit_max_width = 0
    /\ fit_font = font
    /\ fit_removed = 0
    /\ fit_result = <<>>

CadIdle ==
    /\ variant = "inky"
    /\ album_data = NoAlbum
    /\ pc = "idle"
    /\ img_size = <<0, 0>>
    /\ cover = "none"
    /\ y_pos = 0
    /\ title_lines = <<>>
    /\ track_i = 0
    /\ drawn = <<>>
    /\ qr_box = NoBox
    /\ error = ""

FitInit ==
    /\ fit_pc = "check"
    /\ fit_orig \in FitTexts
    /\ fit_text = fit_orig
    /\ fit_max_width \in FitWidths
    /\ fit_font \in Fonts
    /\ fit_removed = 0
    /\ fit_result = <<>>
    /\ font = fit_font
    /\ CadIdle
    /\ MainIdle
    /\ CallsIdle

FitCheck ==
    /\ fit_pc = "check"
    /\ IF Fits(fit_text, fit_max_width, fit_font)
       THEN fit_pc' = "done" /\ fit_result' = fit_text
       ELSE fit_pc' = "loop" /\ fit_result' = fit_result
    /\ UNCHANGED <<fit_orig, fit_text, fit_max_width, fit_font, fit_removed>>
    /\ UNCHANGED fit_frame

FitRemove ==
    /\ fit_pc = "loop"
    /\ LoopCond(fit_text, fit_max_width, fit_font)
    /\ fit_text' = ButLast(fit_text)
    /\ fit_removed' = fit_removed + 1
    /\ UNCHANGED <<fit_pc, fit_orig, fit_max_width, fit_font, fit_result>>
    /\ UNCHANGED fit_frame

FitReturn ==
    /\ fit_pc = "loop"
    /\ ~LoopCond(fit_text, fit_max_width, fit_font)
    /\ fit_result' = TruncReturn(fit_text)
    /\ fit_pc' = "done"
    /\ UNCHANGED <<fit_orig, fit_text, fit_max_width, fit_font, fit_removed>>
    /\ UNCHANGED fit_frame

FitNext == FitCheck \/ FitRemove \/ FitReturn

SpecFit == FitInit /\ [][FitNext]_vars

\* the step machine returns what the operator truncate_text computes
FitMachineAgrees ==
    fit_pc = "done" => fit_result = truncate_text(fit_orig, fit_max_width, fit_font)

----------------------------------------------------------------------------
(* Claims about truncate_text, checked under SpecFit *)

\* C1: for every text, font and max_width at least the rendered width of the
\* ellipsis string, the string truncate_text returns has rendered width (same
\* font) at most max_width.
C1_ResultFitsBudget ==
    (fit_pc = "done" /\ fit_max_width >= RenderedWidth(Ellipsis, fit_font))
        => RenderedWidth(fit_result, fit_font) <= fit_max_width

\* a text that did not fit was cut to a non-empty prefix plus the ellipsis
C1_Witness ==
    /\ fit_pc = "done"
    /\ fit_max_width >= RenderedWidth(Ellipsis, fit_font)
    /\ fit_removed > 0
    /\ fit_result = fit_text \o Ellipsis
    /\ fit_text # <<>>

\* C2: a text whose rendered width is at most max_width is returned as it is,
\* character for character: nothing is removed and no ellipsis is appended.
C2_FittingTextUnchanged ==
    (fit_pc = "done" /\ RenderedWidth(fit_orig, fit_font) <= fit_max_width)
        => (fit_result = fit_orig /\ fit_removed = 0)

\* a non-empty text exactly as wide as the budget was returned
C2_Witness ==
    /\ fit_pc = "done"
    /\ fit_orig # <<>>
    /\ RenderedWidth(fit_orig, fit_font) = fit_max_width
    /\ fit_result = fit_orig

\* C3: when max_width is smaller than the rendered width of the ellipsis alone
\* and the text does not fit, truncate_text removes at most len(text)
\* characters, always has a next step until it returns, and returns exactly
\* the ellipsis string.
C3_NarrowBudgetReturnsEllipsis ==
    (/\ fit_pc # "idle"
     /\ fit_max_width < RenderedWidth(Ellipsis, fit_font)
     /\ RenderedWidth(fit_orig, fit_font) > fit_max_width)
        => /\ fit_removed <= Len(fit_orig)
           /\ fit_pc # "done" => ENABLED FitNext
           /\ fit_pc = "done" => fit_result = Ellipsis

\* a text of two characters or more was stripped down to the bare ellipsis
C3_Witness ==
    /\ fit_pc = "done"
    /\ fit_max_width < RenderedWidth(Ellipsis, fit_font)
    /\ RenderedWidth(fit_orig, fit_font) > fit_max_width
    /\ Len(fit_orig) >= 2
    /\ fit_removed = Len(fit_orig)
    /\ fit_result = Ellipsis

----------------------------------------------------------------------------
(* format_date *)

Digits == <<"0", "1", "2", "3", "4", "5", "6", "7", "8", "9">>

IsDigit(c) == \E i \in 1..10 : Digits[i] = c

DigitVal(c) == (CHOOSE i \in 1..10 : Digits[i] = c) - 1

AllDigits(text) == \A i \in 1..Len(text) : IsDigit(text[i])

RECURSIVE NumVal(_)
NumVal(text) ==
    IF text = <<>> THEN 0
    ELSE NumVal(ButLast(text)) * 10 + DigitVal(text[Len(text)])

\* str(n) for n >= 0
RECURSIVE Dec(_)
Dec(n) ==
    IF n < 10 THEN <<Digits[n + 1]>>
    ELSE Dec(n \div 10) \o <<Digits[(n % 10) + 1]>>

IsLeap(y) == (y % 4 = 0 /\ y % 100 # 0) \/ y % 400 = 0

DaysInMonth(y, m) ==
    IF m = 2 THEN (IF IsLeap(y) THEN 29 ELSE 28)
    ELSE IF m \in {4, 6, 9, 11} THEN 30 ELSE 31

\* position of the first "-" of text, 0 when there is none
FirstDash(text) ==
    IF \E i \in 1..Len(text) : text[i] = "-"
    THEN CHOOSE i \in 1..Len(text) :
             text[i] = "-" /\ \A j \in 1..(i - 1) : text[j] # "-"
    ELSE 0

\* datetime.strptime(date_str, '%Y-%m-%d').year, or -1 when it raises
\* ValueError: %Y is four digits, %m is 1..12 in one or two digits, %d is
\* 1..31 in one or two digits (or a space and one digit), the whole string is
\* consumed, and the date exists (year >= 1, day within the month).
strptime_year(date_str) ==
    IF ~(Len(date_str) >= 5 /\ AllDigits(SubSeq(date_str, 1, 4)) /\ date_str[5] = "-")
    THEN -1
    ELSE LET rest == SubSeq(date_str, 6, Len(date_str))
             k == FirstDash(rest)
             mpart == SubSeq(rest, 1, k - 1)
             dpart == SubSeq(rest, k + 1, Len(rest))
             y == NumVal(SubSeq(date_str, 1, 4))
             m == NumVal(mpart)
             dtext == IF Len(dpart) = 2 /\ dpart[1] = " " THEN <<dpart[2]>> ELSE dpart
             d == NumVal(dtext)
         IN  IF /\ k > 0
                /\ Len(mpart) \in {1, 2} /\ AllDigits(mpart) /\ m \in 1..12
                /\ Len(dpart) \in {1, 2} /\ AllDigits(dtext) /\ d >= 1
                /\ d <= DaysInMonth(y, m)
                /\ y >= 1
             THEN y
             ELSE -1

format_date(date_str) ==
    IF strptime_year(date_str) >= 0
    THEN Dec(strptime_year(date_str))
    ELSE IF date_str # <<>> /\ Len(date_str) >= 4
         THEN SubSeq(date_str, 1, 4)
         ELSE date_str

\* n in decimal on at least w digits
RECURSIVE Pad(_, _)
Pad(n, w) == IF Len(Dec(n)) >= w THEN Dec(n) ELSE <<"0">> \o Pad(n, w - 1)

MaxDateLen == 4

\* The strings format_date is called with: dates year-month-day with and
\* without leading zeros, in and out of range, with text after the day, with
\* a blank before the day; every text of digits and dashes up to MaxDateLen;
\* the empty string and None.
DateYears == {Pad(y, 4) : y \in {0, 1, 99, 1969, 2024}}
DateMonths == {Dec(m) : m \in {0, 2, 9, 13}} \cup {Pad(m, 2) : m \in {0, 2, 9, 12}}
DateDays ==
    {Dec(d) : d \in {0, 5, 29, 30, 31, 32}} \cup {Pad(d, 2) : d \in {0, 5}}
        \cup {<<" ", "5">>, <<"2", "6", "T">>}
DateStrings ==
    {y \o <<"-">> \o m \o <<"-">> \o d : y \in DateYears, m \in DateMonths, d \in DateDays}
        \cup {y \o <<"-">> \o m : y \in DateYears, m \in DateMonths}
        \cup TextsUpTo({"1", "9", "-"}, MaxDateLen)
        \cup {<<"s", "o", "o", "n">>, <<"1", "9", "6", "9", "?">>}

date_frame ==
    <<fit_vars, cad_vars, main_vars, quant_call, up_call, pa_call, env_call, more_vars>>

DateInit ==
    /\ date_call \in {[pc |-> "try", date_str |-> d, result |-> <<>>] : d \in DateStrings}
    /\ quant_call = NoQuantCall
    /\ up_call = NoUpCall
    /\ pa_call = NoPaCall
    /\ env_call = NoEnvCall
    /\ MoreIdle
    /\ font = NoFont
    /\ FitIdle
    /\ CadIdle
    /\ MainIdle

\* try: date = datetime.strptime(date_str, '%Y-%m-%d'); return str(date.year)
DateTry ==
    /\ date_call.pc = "try"
    /\ date_call' =
           IF strptime_year(date_call.date_str) >= 0
           THEN [date_call EXCEPT !.pc = "done",
                                  !.result = Dec(strptime_year(date_call.date_str))]
           ELSE [date_call EXCEPT !.pc = "except"]
    /\ UNCHANGED date_frame

\* except: date_str[:4] when there are 4 characters, else date_str
DateExcept ==
    /\ date_call.pc = "except"
    /\ date_call' =
           [date_call EXCEPT
               !.pc = "done",
               !.result = IF date_call.date_str # <<>> /\ Len(date_call.date_str) >= 4
                          THEN SubSeq(date_call.date_str, 1, 4)
                          ELSE date_call.date_str]
    /\ UNCHANGED date_frame

DateNext == DateTry \/ DateExcept

SpecDate == DateInit /\ [][DateNext]_vars

\* the step machine returns what the operator format_date computes
DateMachineAgrees ==
    date_call.pc = "done" => date_call.result = format_date(date_call.date_str)

----------------------------------------------------------------------------
(* Claims about format_date, checked under SpecDate *)

\* C13: format_date returns the first 4 characters of release_date when it
\* parses as a date year-month-day, otherwise the first 4 characters of the
\* raw string when it has at least 4 characters, otherwise the raw string.
C13_FirstFourCharacters ==
    date_call.pc = "done" =>
        date_call.result =
            IF strptime_year(date_call.date_str) >= 0
            THEN SubSeq(date_call.date_str, 1, 4)
            ELSE IF Len(date_call.date_str) >= 4
                 THEN SubSeq(date_call.date_str, 1, 4)
                 ELSE date_call.date_str

----------------------------------------------------------------------------
(* process_cover_for_eink *)

\* the side of the square the cover is resized to (size), in pixels
Side == 2

\* the palette put into palette_img: 7 colours, the remaining entries zero
\* (one entry stands for the 249 black entries that pad it)
palette ==
    << <<0, 0, 0>>, <<255, 255, 255>>, <<255, 0, 0>>, <<0, 255, 0>>, <<0, 0, 255>>,
       <<255, 255, 0>>, <<255, 165, 0>>, <<0, 0, 0>> >>

\* the pixels of the covers processed: one palette colour, two others
CoverColours == {<<255, 0, 0>>, <<128, 128, 128>>, <<200, 100, 50>>}

\* an image is its pixels row after row, Side * Side of them
CoverImages == [1..(Side * Side) -> CoverColours]

CLIP8(v) == IF v < 0 THEN 0 ELSE IF v > 255 THEN 255 ELSE v

\* the division of C, rounding toward zero
CDiv(a, b) == IF a >= 0 THEN a \div b ELSE -((-a) \div b)

Dist(c, d) ==
    (c[1] - d[1]) * (c[1] - d[1]) + (c[2] - d[2]) * (c[2] - d[2])
        + (c[3] - d[3]) * (c[3] - d[3])

\* the index of the palette entry closest to colour c, the first on a tie
Closest(c) ==
    CHOOSE i \in 1..Len(palette) :
        \A j \in 1..Len(palette) :
            \/ Dist(c, palette[i]) < Dist(c, palette[j])
            \/ Dist(c, palette[i]) = Dist(c, palette[j]) /\ i <= j

\* the error left at pixel (x, y), zero outside the image; errs holds the
\* errors of the pixels quantized so far
ErrAt(errs, x, y) ==
    IF x >= 0 /\ x < Side /\ y >= 0 /\ (y * Side + x + 1) <= Len(errs)
    THEN errs[y * Side + x + 1]
    ELSE <<0, 0, 0>>

\* Floyd-Steinberg: pixel k takes 7/16 of the error of its left neighbour and
\* 1/16, 5/16, 3/16 of the errors above-left, above, above-right
Diffused(img, errs, k) ==
    LET x == (k - 1) % Side
        y == (k - 1) \div Side
    IN  [ch \in 1..3 |->
            CLIP8(img[k][ch]
                  + CDiv(7 * ErrAt(errs, x - 1, y)[ch] + ErrAt(errs, x - 1, y - 1)[ch]
                         + 5 * ErrAt(errs, x, y - 1)[ch] + 3 * ErrAt(errs, x + 1, y - 1)[ch],
                         16))]

convertRGBMutShift(idx) == [k \in 1..Len(idx) |-> palette[(idx[k] % Len(palette)) + 1]]

\* cover.convert('RGB') of a palette image
convertRGB(idx) == [k \in 1..Len(idx) |-> palette[idx[k]]]

\* cover.resize((size, size), Image.LANCZOS) of an image of that size: a copy
resize(img) == img

quant_frame ==
    <<fit_vars, cad_vars, main_vars, date_call, up_call, pa_call, env_call, more_vars>>

QuantInit ==
    /\ quant_call \in
           {[pc |-> "resize", call |-> 1, cover |-> img, idx |-> <<>>, errs |-> <<>>,
             first |-> <<>>] : img \in CoverImages}
    /\ date_call = NoDateCall
    /\ up_call = NoUpCall
    /\ pa_call = NoPaCall
    /\ env_call = NoEnvCall
    /\ MoreIdle
    /\ font = NoFont
    /\ FitIdle
    /\ CadIdle
    /\ MainIdle

QuantResize ==
    /\ quant_call.pc = "resize"
    /\ quant_call' = [quant_call EXCEPT !.pc = "quantize", !.cover = resize(quant_call.cover)]
    /\ UNCHANGED quant_frame

\* cover.quantize(palette=palette_img, dither=Image.FLOYDSTEINBERG), one
\* pixel: the closest palette entry of the pixel plus the error diffused to it
QuantPixel ==
    /\ quant_call.pc = "quantize"
    /\ Len(quant_call.idx) < Len(quant_call.cover)
    /\ \E c \in {Diffused(quant_call.cover, quant_call.errs, Len(quant_call.idx) + 1)} :
       \E i \in {Closest(c)} :
           quant_call' =
               [quant_call EXCEPT
                   !.idx = Append(quant_call.idx, i),
                   !.errs = Append(quant_call.errs, [ch \in 1..3 |-> c[ch] - palette[i][ch]])]
    /\ UNCHANGED quant_frame

\* every pixel has its palette index
QuantQuantized ==
    /\ quant_call.pc = "quantize"
    /\ Len(quant_call.idx) = Len(quant_call.cover)
    /\ quant_call' = [quant_call EXCEPT !.pc = "convert"]
    /\ UNCHANGED quant_frame

QuantConvert ==
    /\ quant_call.pc = "convert"
    /\ quant_call' = [quant_call EXCEPT !.pc = "return", !.cover = convertRGB(quant_call.idx)]
    /\ UNCHANGED quant_frame

\* process_cover_for_eink is applied to the image it returned
QuantAgain ==
    /\ quant_call.pc = "return"
    /\ quant_call.call = 1
    /\ quant_call' = [quant_call EXCEPT !.pc = "resize", !.call = 2, !.idx = <<>>,
                                        !.errs = <<>>, !.first = quant_call.cover]
    /\ UNCHANGED quant_frame

QuantNext == QuantResize \/ QuantPixel \/ QuantQuantized \/ QuantConvert \/ QuantAgain

SpecQuant == QuantInit /\ [][QuantNext]_vars

----------------------------------------------------------------------------
(* Claims about process_cover_for_eink, checked under SpecQuant *)

IsPaletteColour(c) == \E i \in 1..7 : c = palette[i]

\* C15: process_cover_for_eink applied to an image it returned gives that
\* image again, pixel for pixel: every pixel of it is one of the 7 palette
\* colours and the error diffused from every pixel is zero.
C15_IdempotentOnOwnOutput ==
    /\ (quant_call.pc = "return" /\ quant_call.call = 2)
           => quant_call.cover = quant_call.first
    /\ quant_call.pc = "return"
           => \A k \in 1..Len(quant_call.cover) : IsPaletteColour(quant_call.cover[k])
    /\ quant_call.call = 2
           => \A k \in 1..Len(quant_call.errs) : quant_call.errs[k] = <<0, 0, 0>>

\* a cover that the first call dithered into several colours, returned
\* unchanged by the second call
C15_Witness ==
    /\ quant_call.pc = "return"
    /\ quant_call.call = 2
    /\ quant_call.cover = quant_call.first
    /\ \E k \in 1..Len(quant_call.cover) : quant_call.cover[k] # quant_call.cover[1]

----------------------------------------------------------------------------
(* PlaylistManager.get_user_playlists *)

MaxLimit == 3
MaxPages == 3
MaxPageLen == 2

\* results['items'] of one page: playlists, some of them None
PlaylistItems == TextsUpTo({"playlist", "None"}, MaxPageLen)

up_frame ==
    <<fit_vars, cad_vars, main_vars, date_call, quant_call, pa_call, env_call, more_vars>>

UpInit ==
    /\ up_call \in
           {[pc |-> "loop", username |-> u, limit |-> l, offset |-> 0, fetched |-> 0,
             playlists |-> <<>>] : u \in {"", "user"}, l \in 1..MaxLimit}
    /\ date_call = NoDateCall
    /\ quant_call = NoQuantCall
    /\ pa_call = NoPaCall
    /\ env_call = NoEnvCall
    /\ MoreIdle
    /\ font = NoFont
    /\ FitIdle
    /\ CadIdle
    /\ MainIdle

\* no username: return []
UpNoUsername ==
    /\ up_call.pc = "loop"
    /\ up_call.username = ""
    /\ up_call' = [up_call EXCEPT !.pc = "returned", !.playlists = <<>>]
    /\ UNCHANGED up_frame

\* the playlists of a page that are not None, each named by its place in
\* the service's listing
Appended(items, offset) ==
    LET places == [k \in 1..Len(items) |-> offset + k]
    IN  SelectSeq(places, LAMBDA q : items[q - offset] # "None")

\* one iteration of while True: the service answers with a page (the last
\* one at the latest when MaxPages pages were fetched)
UpPage ==
    /\ up_call.pc = "loop"
    /\ up_call.username # ""
    /\ \E items \in PlaylistItems, next \in BOOLEAN :
           /\ up_call.fetched + 1 >= MaxPages => ~next
           /\ LET playlists == up_call.playlists \o Appended(items, up_call.offset)
              IN  up_call' =
                      IF items = <<>>
                      THEN [up_call EXCEPT !.pc = "returned", !.fetched = @ + 1]
                      ELSE IF ~next \/ Len(playlists) >= up_call.limit
                           THEN [up_call EXCEPT !.pc = "returned", !.fetched = @ + 1,
                                                !.playlists = playlists]
                           ELSE [up_call EXCEPT !.fetched = @ + 1, !.playlists = playlists,
                                                !.offset = @ + 50]
    /\ UNCHANGED up_frame

UpNext == UpNoUsername \/ UpPage

SpecPlaylists == UpInit /\ [][UpNext]_vars

----------------------------------------------------------------------------
(* Claims about get_user_playlists, checked under SpecPlaylists *)

\* C18: get_user_playlists(username, limit) returns at most limit playlists,
\* for every limit >= 1 and every sequence of pages the service returns.
C18_AtMostLimitPlaylists ==
    up_call.pc = "returned" => Len(up_call.playlists) <= up_call.limit

----------------------------------------------------------------------------
(* SpotifyAlbumFetcher.get_playlist_albums *)

AlbumIds == {"A", "B"}
AlbumNames == {"first pressing", "reissue"}

\* one entry of results['items']: no track, a track without album, or a
\* track with its album
TrackItem(kind, id, name) == [kind |-> kind, id |-> id, name |-> name]
TrackItems ==
    {TrackItem("no track", "", ""), TrackItem("no album", "", "")}
        \cup {TrackItem("album", id, name) : id \in AlbumIds, name \in AlbumNames}

TrackPages == TextsUpTo(TrackItems, MaxPageLen)

HasId(albums, id) == \E k \in 1..Len(albums) : albums[k].id = id

StoreMutOverwrite(albums, album) ==
    IF HasId(albums, album.id)
    THEN [k \in 1..Len(albums) |->
             IF albums[k].id = album.id
             THEN [id |-> album.id, name |-> album.name]
             ELSE albums[k]]
    ELSE Append(albums, [id |-> album.id, name |-> album.name])

\* if album_id not in albums: albums[album_id] = {...}
Store(albums, album) ==
    IF HasId(albums, album.id)
    THEN albums
    ELSE Append(albums, [id |-> album.id, name |-> album.name])

\* what the service has sent so far, kept beside the program: for each album
\* id, the name its first track on the pages carried ("" when none did)
NothingHeard == [id \in AlbumIds |-> ""]

Heard(heard, items) ==
    [id \in AlbumIds |->
        IF heard[id] # "" THEN heard[id]
        ELSE IF \E k \in 1..Len(items) : items[k].kind = "album" /\ items[k].id = id
             THEN LET first == CHOOSE k \in 1..Len(items) :
                                  /\ items[k].kind = "album" /\ items[k].id = id
                                  /\ \A j \in 1..(k - 1) :
                                         ~(items[j].kind = "album" /\ items[j].id = id)
                  IN  items[first].name
             ELSE ""]

pa_frame ==
    <<fit_vars, cad_vars, main_vars, date_call, quant_call, up_call, env_call, more_vars>>

PaInit ==
    /\ pa_call = [pc |-> "fetch", offset |-> 0, fetched |-> 0, items |-> <<>>, next |-> FALSE,
                  i |-> 0, albums |-> <<>>, heard |-> NothingHeard]
    /\ date_call = NoDateCall
    /\ quant_call = NoQuantCall
    /\ up_call = NoUpCall
    /\ env_call = NoEnvCall
    /\ MoreIdle
    /\ font = NoFont
    /\ FitIdle
    /\ CadIdle
    /\ MainIdle

\* results = self.sp.playlist_tracks(...): the service answers with a page
\* (the last one at the latest when MaxPages pages were fetched); an empty
\* page ends the loop
PaFetch ==
    /\ pa_call.pc = "fetch"
    /\ \E items \in TrackPages, next \in BOOLEAN :
           /\ pa_call.fetched + 1 >= MaxPages => ~next
           /\ pa_call' = [pa_call EXCEPT
                              !.pc = IF items = <<>> THEN "returned" ELSE "items",
                              !.fetched = @ + 1,
                              !.items = items,
                              !.next = next,
                              !.i = 0,
                              !.heard = Heard(@, items)]
    /\ UNCHANGED pa_frame

\* for item in results['items']: one item
PaItem ==
    /\ pa_call.pc = "items"
    /\ pa_call.i < Len(pa_call.items)
    /\ LET item == pa_call.items[pa_call.i + 1]
       IN  pa_call' = [pa_call EXCEPT
                          !.i = @ + 1,
                          !.albums = IF item.kind = "album" THEN Store(@, item) ELSE @]
    /\ UNCHANGED pa_frame

\* the page is done: leave the loop when there is no next page
PaPageDone ==
    /\ pa_call.pc = "items"
    /\ pa_call.i = Len(pa_call.items)
    /\ pa_call' = IF ~pa_call.next
                  THEN [pa_call EXCEPT !.pc = "returned"]
                  ELSE [pa_call EXCEPT !.pc = "fetch", !.offset = @ + 100]
    /\ UNCHANGED pa_frame

PaNext == PaFetch \/ PaItem \/ PaPageDone

SpecAlbums == PaInit /\ [][PaNext]_vars

----------------------------------------------------------------------------
(* Claims about get_playlist_albums, checked under SpecAlbums *)

\* C19: get_playlist_albums returns each album of the playlist exactly once:
\* no two entries of the result share an album id, every album id carried by
\* a non-null track on a fetched page is in the result, and the entry kept for
\* an id is the one of its first occurrence.
C19_EachAlbumOnceFirstKept ==
    pa_call.pc = "returned" =>
        /\ \A j, k \in 1..Len(pa_call.albums) :
               pa_call.albums[j].id = pa_call.albums[k].id => j = k
        /\ \A id \in AlbumIds :
               pa_call.heard[id] # "" => HasId(pa_call.albums, id)
        /\ \A k \in 1..Len(pa_call.albums) :
               pa_call.albums[k].name = pa_call.heard[pa_call.albums[k].id]

\* an album sent twice under two names, returned once under the first
C19_Witness ==
    /\ pa_call.pc = "returned"
    /\ pa_call.fetched = 2
    /\ pa_call.items = <<TrackItem("album", "A", "reissue"), TrackItem("no track", "", "")>>
    /\ pa_call.albums = <<[id |-> "B", name |-> "reissue"], [id |-> "A", name |-> "first pressing"]>>

----------------------------------------------------------------------------
(* update_env_file *)

MaxFileLen == 4

\* The characters of the .env file: "K" stands for the text
\* SPOTIFY_PLAYLIST_ID= , "x" and "y" for any other character, "\n" for the
\* end of a line.
Key == <<"K">>
FileChars == {"K", "x", "y", "\n"}

\* os.path.exists(env_path) is false
Missing == <<"<missing>">>

FileContents == TextsUpTo(FileChars, MaxFileLen) \cup {Missing}
PlaylistIds == {<<"x">>, <<"y">>}

\* f.readlines(): the lines with their "\n", the last one maybe without
RECURSIVE ReadLinesAcc(_, _, _)
ReadLinesAcc(content, line, lines) ==
    IF content = <<>>
    THEN (IF line = <<>> THEN lines ELSE Append(lines, line))
    ELSE IF Head(content) = "\n"
         THEN ReadLinesAcc(Tail(content), <<>>, Append(lines, Append(line, "\n")))
         ELSE ReadLinesAcc(Tail(content), Append(line, Head(content)), lines)

readlines(content) == ReadLinesAcc(content, <<>>, <<>>)

\* f.writelines(env_lines): the lines one after the other, nothing added
RECURSIVE writelines(_)
writelines(lines) ==
    IF lines = <<>> THEN <<>> ELSE Head(lines) \o writelines(Tail(lines))

\* line.startswith(prefix)
startswith(line, prefix) ==
    Len(line) >= Len(prefix) /\ SubSeq(line, 1, Len(prefix)) = prefix

\* f'SPOTIFY_PLAYLIST_ID={playlist_id}\n'
KeyLine(playlist_id) == Key \o playlist_id \o <<"\n">>

\* the for loop with its break, and the append when no line was updated
UpdateLines(env_lines, playlist_id) ==
    IF \E i \in 1..Len(env_lines) : startswith(env_lines[i], Key)
    THEN LET i == CHOOSE k \in 1..Len(env_lines) :
                      /\ startswith(env_lines[k], Key)
                      /\ \A j \in 1..(k - 1) : ~startswith(env_lines[j], Key)
         IN  [env_lines EXCEPT ![i] = KeyLine(playlist_id)]
    ELSE Append(env_lines, KeyLine(playlist_id))

env_frame ==
    <<fit_vars, cad_vars, main_vars, date_call, quant_call, up_call, pa_call, more_vars>>

EnvInit ==
    /\ env_call \in
           {[pc |-> "read", playlist_id |-> id, before |-> c, file |-> c, env_lines |-> <<>>,
             calls |-> 1, once |-> Missing] :
                id \in PlaylistIds, c \in FileContents}
    /\ date_call = NoDateCall
    /\ quant_call = NoQuantCall
    /\ up_call = NoUpCall
    /\ pa_call = NoPaCall
    /\ MoreIdle
    /\ font = NoFont
    /\ FitIdle
    /\ CadIdle
    /\ MainIdle

\* env_lines = f.readlines() when the file exists, else []
EnvRead ==
    /\ env_call.pc = "read"
    /\ env_call' = [env_call EXCEPT
                        !.pc = "update",
                        !.env_lines = IF env_call.file = Missing
                                      THEN <<>>
                                      ELSE readlines(env_call.file)]
    /\ UNCHANGED env_frame

EnvUpdate ==
    /\ env_call.pc = "update"
    /\ env_call' = [env_call EXCEPT
                        !.pc = "write",
                        !.env_lines = UpdateLines(@, env_call.playlist_id)]
    /\ UNCHANGED env_frame

\* with open(env_path, 'w') as f: f.writelines(env_lines)
EnvWrite ==
    /\ env_call.pc = "write"
    /\ env_call' = [env_call EXCEPT !.pc = "returned", !.file = writelines(env_call.env_lines)]
    /\ UNCHANGED env_frame

EnvNext == EnvRead \/ EnvUpdate \/ EnvWrite

SpecEnv == EnvInit /\ [][EnvNext]_vars

\* update_env_file is called a second time with the same playlist id on the
\* file the first call left; once keeps what the first call wrote
EnvAgain ==
    /\ env_call.pc = "returned"
    /\ env_call.calls = 1
    /\ env_call' = [env_call EXCEPT
                        !.pc = "read",
                        !.calls = 2,
                        !.once = env_call.file,
                        !.env_lines = <<>>]
    /\ UNCHANGED env_frame

EnvNextTwice == EnvNext \/ EnvAgain

SpecEnvTwice == EnvInit /\ [][EnvNextTwice]_vars

----------------------------------------------------------------------------
(* Claims about update_env_file, checked under SpecEnv *)

\* the lines of a file, without their ends of line
RECURSIVE LinesOfAcc(_, _, _)
LinesOfAcc(content, line, lines) ==
    IF content = <<>>
    THEN (IF line = <<>> THEN lines ELSE Append(lines, line))
    ELSE IF Head(content) = "\n"
         THEN LinesOfAcc(Tail(content), <<>>, Append(lines, line))
         ELSE LinesOfAcc(Tail(content), Append(line, Head(content)), lines)

LinesOf(content) == LinesOfAcc(content, <<>>, <<>>)

\* C20: after update_env_file(playlist_id, env_path) returns, whatever the
\* file held before (missing, empty, no final newline, zero, one or several
\* SPOTIFY_PLAYLIST_ID= lines), the file has a line that is exactly
\* SPOTIFY_PLAYLIST_ID=<playlist_id> and no line giving SPOTIFY_PLAYLIST_ID
\* another value.
C20_FileAssignsPlaylistIdOnly ==
    env_call.pc = "returned" =>
        LET lines == LinesOf(env_call.file)
        IN  /\ \E k \in 1..Len(lines) : lines[k] = Key \o env_call.playlist_id
            /\ \A k \in 1..Len(lines) :
                   startswith(lines[k], Key) => lines[k] = Key \o env_call.playlist_id

----------------------------------------------------------------------------
(* get_random_album_from_playlist: marking the track that comes from the
   playlist *)

MaxNameLen == 3
MaxAlbumTracks == 6

\* The characters of a track name: "S" a capital letter and "s" the same
\* letter in lower case, "x" another letter, "Q" and "q" one of the words
\* remaster, remix, re-master, edit, version, live, demo with and without a
\* capital, " ", and "-" a dash or an opening parenthesis.
NameChars == {"S", "s", "x", "Q", "q", " ", "-"}

\* name.lower()
lower(name) ==
    [k \in 1..Len(name) |->
        CASE name[k] = "S" -> "s"
          [] name[k] = "Q" -> "q"
          [] OTHER -> name[k]]

\* name.strip()
RECURSIVE strip(_)
strip(name) ==
    IF name = <<>> THEN name
    ELSE IF Head(name) = " " THEN strip(Tail(name))
    ELSE IF name[Len(name)] = " " THEN strip(SubSeq(name, 1, Len(name) - 1))
    ELSE name

\* the text from place i on matches \s*[-\(]\s*(remaster|remix|...)
RECURSIVE QualifierAt(_, _, _)
QualifierAt(name, i, dash_seen) ==
    IF i > Len(name) THEN FALSE
    ELSE IF name[i] = " " THEN QualifierAt(name, i + 1, dash_seen)
    ELSE IF name[i] = "-" /\ ~dash_seen THEN QualifierAt(name, i + 1, TRUE)
    ELSE name[i] = "q" /\ dash_seen

\* re.sub(r'\s*[-\(]\s*(remaster|...).*', '', name): the leftmost match goes
\* to the end of the name
StripQualifier(name) ==
    IF \E i \in 1..Len(name) : QualifierAt(name, i, FALSE)
    THEN LET i == CHOOSE k \in 1..Len(name) :
                      /\ QualifierAt(name, k, FALSE)
                      /\ \A j \in 1..(k - 1) : ~QualifierAt(name, j, FALSE)
         IN  SubSeq(name, 1, i - 1)
    ELSE name

\* re.sub(r'\s+', ' ', name)
RECURSIVE CollapseSpaces(_)
CollapseSpaces(name) ==
    IF Len(name) < 2 THEN name
    ELSE IF name[1] = " " /\ name[2] = " " THEN CollapseSpaces(Tail(name))
    ELSE <<Head(name)>> \o CollapseSpaces(Tail(name))

clean_track_name(name) == strip(CollapseSpaces(StripQualifier(strip(lower(name)))))

\* detailed_tracks[:5]
TopFive(detailed_tracks) ==
    SubSeq(detailed_tracks, 1, IF Len(detailed_tracks) < 5 THEN Len(detailed_tracks) ELSE 5)

Song == <<"S">>
SongLive == <<"S", " ", "-", " ", "Q">>
OtherSong == <<"x">>

\* The calls marked: every playlist track name up to MaxNameLen against two
\* albums, and three names against every album of up to MaxAlbumTracks tracks
\* drawn from them (sorted by popularity already).
FlagInputs ==
    {[selected |-> n, detailed |-> d] :
        n \in TextsUpTo(NameChars, MaxNameLen),
        d \in {<<Song, OtherSong>>, <<OtherSong, <<"s", " ", " ", "x">>, SongLive>>}}
    \cup {[selected |-> n, detailed |-> d] :
              n \in {Song, SongLive, OtherSong},
              d \in TextsUpTo({Song, SongLive, OtherSong}, MaxAlbumTracks)}

flag_frame ==
    <<fit_vars, cad_vars, main_vars, date_call, quant_call, up_call, pa_call, env_call,
      sel_call, inky_call>>

FlagInit ==
    /\ ra_call \in
           {[pc |-> "mark", playlist_track_name |-> in.selected,
             detailed_tracks |-> in.detailed, tracks_with_metadata |-> <<>>] :
                in \in FlagInputs}
    /\ sel_call = NoSelCall
    /\ inky_call = NoInkyCall
    /\ date_call = NoDateCall
    /\ quant_call = NoQuantCall
    /\ up_call = NoUpCall
    /\ pa_call = NoPaCall
    /\ env_call = NoEnvCall
    /\ font = NoFont
    /\ FitIdle
    /\ CadIdle
    /\ MainIdle

\* for t in detailed_tracks[:5]: one track
FlagTrack ==
    /\ ra_call.pc = "mark"
    /\ Len(ra_call.tracks_with_metadata) < Len(TopFive(ra_call.detailed_tracks))
    /\ LET t == TopFive(ra_call.detailed_tracks)[Len(ra_call.tracks_with_metadata) + 1]
           track_clean == clean_track_name(t)
           is_playlist_track == track_clean = clean_track_name(ra_call.playlist_track_name)
       IN  ra_call' = [ra_call EXCEPT
                          !.tracks_with_metadata =
                              Append(@, [name |-> t, in_playlist |-> is_playlist_track])]
    /\ UNCHANGED flag_frame

\* return {..., 'tracks': tracks_with_metadata, ...}
FlagReturn ==
    /\ ra_call.pc = "mark"
    /\ Len(ra_call.tracks_with_metadata) = Len(TopFive(ra_call.detailed_tracks))
    /\ ra_call' = [ra_call EXCEPT !.pc = "returned"]
    /\ UNCHANGED flag_frame

FlagNext == FlagTrack \/ FlagReturn

SpecFlags == FlagInit /\ [][FlagNext]_vars

----------------------------------------------------------------------------
(* SpotifyAlbumFetcher.get_random_album_from_playlist: the pages *)

\* one entry of results['items']: TRUE when item['track'] is a track, FALSE
\* when it is null
PlaylistPages == TextsUpTo(BOOLEAN, MaxPageLen)

\* a track is named by the offset of its page and its place on the page
TrackAt(offset, k) == <<offset, k>>

RECURSIVE TracksOnAcc(_, _, _, _)
TracksOnAcc(items, offset, k, acc) ==
    IF k > Len(items) THEN acc
    ELSE TracksOnAcc(items, offset, k + 1,
                     IF items[k] THEN Append(acc, TrackAt(offset, k)) ELSE acc)

\* the non-null tracks of a page, in the order of the page
TracksOn(items, offset) == TracksOnAcc(items, offset, 1, <<>>)

NextOffsetMutStay(offset, limit) == offset

\* offset += limit
NextOffset(offset, limit) == offset + limit

KeepsMutAll(item) == TRUE

\* if item['track']:
Keeps(item) == item

page_frame ==
    <<fit_vars, cad_vars, main_vars, date_call, quant_call, up_call, pa_call, env_call,
      sel_call, inky_call>>

\* playlist_tracks = []; offset = 0; limit = 100.  requested, stops and sent
\* are kept beside the program: the offsets asked for, for each page received
\* whether it was empty or had no next link, and the non-null tracks received
PageInit ==
    /\ ra_call = [pc |-> "fetch", offset |-> 0, limit |-> 100, items |-> <<>>,
                  next |-> FALSE, i |-> 0, playlist_tracks |-> <<>>,
                  requested |-> <<>>, stops |-> <<>>, sent |-> <<>>]
    /\ sel_call = NoSelCall
    /\ inky_call = NoInkyCall
    /\ date_call = NoDateCall
    /\ quant_call = NoQuantCall
    /\ up_call = NoUpCall
    /\ pa_call = NoPaCall
    /\ env_call = NoEnvCall
    /\ font = NoFont
    /\ FitIdle
    /\ CadIdle
    /\ MainIdle

\* results = self.sp.playlist_tracks(playlist_id, offset=offset, limit=limit,
\* ...): the service answers with a page; the page MaxPages at the latest
\* has no next link
PageFetch ==
    /\ ra_call.pc = "fetch"
    /\ \E items \in PlaylistPages, next \in BOOLEAN :
           /\ Len(ra_call.requested) + 1 >= MaxPages => ~next
           /\ ra_call' = [ra_call EXCEPT
                              !.pc = "results",
                              !.items = items,
                              !.next = next,
                              !.i = 0,
                              !.requested = Append(@, ra_call.offset),
                              !.stops = Append(@, items = <<>> \/ ~next),
                              !.sent = @ \o TracksOn(items, ra_call.offset)]
    /\ UNCHANGED page_frame

\* if not results['items']: break
PageEmptyTest ==
    /\ ra_call.pc = "results"
    /\ ra_call' = [ra_call EXCEPT !.pc = IF ra_call.items = <<>> THEN "paged" ELSE "items"]
    /\ UNCHANGED page_frame

\* for item in results['items']: one item
PageItem ==
    /\ ra_call.pc = "items"
    /\ ra_call.i < Len(ra_call.items)
    /\ LET k == ra_call.i + 1
           item == ra_call.items[k]
       IN  ra_call' = [ra_call EXCEPT
                          !.i = k,
                          !.playlist_tracks =
                              IF Keeps(item)
                              THEN Append(@, TrackAt(ra_call.offset, k))
                              ELSE @]
    /\ UNCHANGED page_frame

\* if not results['next']: break, else offset += limit
PageNextTest ==
    /\ ra_call.pc = "items"
    /\ ra_call.i = Len(ra_call.items)
    /\ ra_call' = IF ~ra_call.next
                  THEN [ra_call EXCEPT !.pc = "paged"]
                  ELSE [ra_call EXCEPT !.pc = "fetch",
                                       !.offset = NextOffset(@, ra_call.limit)]
    /\ UNCHANGED page_frame

\* if not playlist_tracks: return None, else a track is chosen
PageAfterLoop ==
    /\ ra_call.pc = "paged"
    /\ ra_call' = [ra_call EXCEPT
                      !.pc = IF ra_call.playlist_tracks = <<>>
                             THEN "returned None" ELSE "choose"]
    /\ UNCHANGED page_frame

PageNext == PageFetch \/ PageEmptyTest \/ PageItem \/ PageNextTest \/ PageAfterLoop

SpecPages == PageInit /\ [][PageNext]_vars

\* the loop is not suspended for ever: each call of the service returns
SpecPagesFair == SpecPages /\ WF_vars(PageNext)

----------------------------------------------------------------------------
(* Claims about the marked track, checked under SpecFlags *)

\* C22: in the record get_random_album_from_playlist returns at most one of
\* the (up to 5) track entries has in_playlist = true, and an entry is flagged
\* exactly when its normalized name equals the normalized name of the
\* playlist track selected.
C22_AtMostOneFlaggedEntry ==
    ra_call.pc = "returned" =>
        LET tracks == ra_call.tracks_with_metadata
        IN  /\ Len(tracks) <= 5
            /\ Cardinality({k \in 1..Len(tracks) : tracks[k].in_playlist}) <= 1
            /\ \A k \in 1..Len(tracks) :
                   tracks[k].in_playlist
                       <=> clean_track_name(tracks[k].name)
                               = clean_track_name(ra_call.playlist_track_name)

\* the flags are those of the normalized names, whatever their number
FlagsFollowCleanNames ==
    ra_call.pc = "returned" =>
        /\ Len(ra_call.tracks_with_metadata) <= 5
        /\ \A k \in 1..Len(ra_call.tracks_with_metadata) :
               ra_call.tracks_with_metadata[k].in_playlist
                   <=> clean_track_name(ra_call.tracks_with_metadata[k].name)
                           = clean_track_name(ra_call.playlist_track_name)

----------------------------------------------------------------------------
(* The album record *)

\* a key the record does not hold
Absent == <<"<absent>">>

\* a key the record holds with the value None
None == <<"<None>">>

\* album_data.get(key, default): the default only when the key is missing
Get(value, default) == IF value = Absent THEN default ELSE value

\* the record holds no 'tracks' key
AbsentTracks == <<[form |-> "absent", name |-> <<>>, in_playlist |-> FALSE]>>

\* the record holds 'tracks': None
NoneTracks == <<[form |-> "None", name |-> <<>>, in_playlist |-> FALSE]>>

\* album_data.get('tracks', [])
GetTracks(value) == IF value = AbsentTracks THEN <<>> ELSE value

\* the truth value Python gives a string (or a missing key's None)
Truthy(value) == value # Absent /\ value # None /\ value # <<>>

\* one entry of album_data['tracks']: a dict {'name', 'in_playlist'} or a string
TrackDict(name, flag) == [form |-> "dict", name |-> name, in_playlist |-> flag]
TrackStr(name) == [form |-> "str", name |-> name, in_playlist |-> FALSE]

RECURSIVE SeqsUpTo(_, _)
SeqsUpTo(S, n) ==
    IF n = 0 THEN {<<>>}
    ELSE LET shorter == SeqsUpTo(S, n - 1)
         IN  shorter \cup {Append(t, e) : t \in {u \in shorter : Len(u) = n - 1}, e \in S}

ShortName == <<"a">>
LongName == <<"W", "W", "W">>
\* a name that fits max_track_width but not max_track_width - 25 in one font
MidName == <<"a", " ", "W">>

TrackEntriesAll ==
    {TrackDict(n, b) : n \in {ShortName, LongName}, b \in BOOLEAN}
        \cup {TrackStr(n) : n \in {ShortName, LongName}}
        \cup {TrackDict(MidName, TRUE)}
TrackEntriesTwo == {TrackDict(ShortName, TRUE), TrackStr(LongName)}

TrackLists ==
    SeqsUpTo(TrackEntriesAll, MaxShortTracks) \cup SeqsUpTo(TrackEntriesTwo, MaxTracks)

TitlesAll == TextsUpTo(Chars, MaxTitleLen) \cup {Absent}
TitlesSmall == {<<>>, <<"a">>, <<"W", " ", "W", " ", "W">>}
Artists == {Absent, <<>>, <<"a">>, <<"W", "W", "W">>}
Dates ==
    {Absent, <<"1", "9">>, <<"1", "9", "6", "9">>,
     <<"1", "9", "6", "9", "-", "0", "9", "-", "2", "6">>}
Urls == {Absent, <<>>, <<"u">>}

Album(title, artist, date, cover_url, tracks, url) ==
    [title |-> title, artist |-> artist, release_date |-> date,
     cover_url |-> cover_url, tracks |-> tracks, spotify_url |-> url]

\* The records composed: every title with a plain record around it, every
\* track list under a title of 0, 1 or 2 lines, every combination of
\* artist, date, cover URL and link URL, and every combination of null fields.
Albums ==
    {Album(t, <<"a">>, <<"1", "9", "6", "9">>, Absent, <<>>, Absent) : t \in TitlesAll}
    \cup {Album(t, <<"a">>, <<"1", "9", "6", "9">>, Absent, tr, <<"u">>) :
              t \in TitlesSmall, tr \in TrackLists}
    \cup {Album(<<"a">>, ar, d, c, tr, u) :
              ar \in Artists, d \in Dates, c \in {Absent, <<"u">>},
              tr \in {AbsentTracks, <<TrackDict(ShortName, TRUE)>>}, u \in Urls}
    \cup {Album(t, ar, d, c, tr, u) :
              t \in {None, <<"a">>}, ar \in {None, <<"a">>},
              d \in {None, <<"1", "9", "6", "9">>}, c \in {None, <<"u">>},
              tr \in {NoneTracks, <<>>}, u \in {None, <<"u">>}}

----------------------------------------------------------------------------
(* create_album_display *)

x_start == COVER_WIDTH + 35
max_title_width == INFO_WIDTH - 70 - 100
max_track_width == max_title_width - 35

\* load_font(size, bold): the handle of the family found; its metrics are font
load_font(size, bold) == font

Draw(kind, text, x, y) == [kind |-> kind, text |-> text, x |-> x, y |-> y]

\* title.split(): the maximal runs of non-blank characters
RECURSIVE SplitAcc(_, _, _)
SplitAcc(text, word, words) ==
    IF text = <<>>
    THEN (IF word = <<>> THEN words ELSE Append(words, word))
    ELSE IF Head(text) = " "
         THEN SplitAcc(Tail(text), <<>>, IF word = <<>> THEN words ELSE Append(words, word))
         ELSE SplitAcc(Tail(text), Append(word, Head(text)), words)

split(text) == SplitAcc(text, <<>>, <<>>)

\* the loop over words and the final append of current_line
RECURSIVE WrapLoop(_, _, _, _)
WrapLoop(words, current_line, lines, f) ==
    IF words = <<>>
    THEN (IF current_line # <<>> THEN Append(lines, current_line) ELSE lines)
    ELSE LET word == Head(words)
             test_line == IF current_line # <<>>
                          THEN current_line \o <<" ">> \o word
                          ELSE word
             bbox == textbbox(0, test_line, f)
         IN  IF bbox.right - bbox.left <= max_title_width
             THEN WrapLoop(Tail(words), test_line, lines, f)
             ELSE WrapLoop(Tail(words), word,
                           IF current_line # <<>> THEN Append(lines, current_line) ELSE lines,
                           f)

GreedyLinesMutNoWrap(title, f) == IF split(title) = <<>> THEN <<>> ELSE <<title>>

GreedyLines(title, f) == WrapLoop(split(title), <<>>, <<>>, f)

LimitLinesMutNoCap(lines, f) == lines

\* if len(title_lines) > 2: keep two, truncate_text the second
LimitLines(lines, f) ==
    IF Len(lines) > 2
    THEN <<lines[1], truncate_text(lines[2], max_title_width, f)>>
    ELSE lines

\* f"{i:02d}"
Format02(i) == IF i < 10 THEN <<"0">> \o Dec(i) ELSE Dec(i)

TakeTracksMutAll(tracks) == tracks

\* album_data.get('tracks', [])[:5]
TakeTracks(tracks) == SubSeq(tracks, 1, IF Len(tracks) < 5 THEN Len(tracks) ELSE 5)

\* the asterisk drawn after a highlighted track name
MarkerText == IF variant = "inky" THEN <<"*">> ELSE <<"*", "*", "*">>

\* the section label above the track rows, one glyph in the model
TracksTitle ==
    IF variant = "inky"
    THEN <<"MEILLEURS TITRES DE L'ALBUM :">>
    ELSE <<"MEILLEURS TITRES DE L'ALBUM">>

\* y_pos advance after the section label
TracksTitleAdvance == IF variant = "inky" THEN 30 ELSE 28

NewImageMutSwapped == <<HEIGHT, WIDTH>>

\* Image.new('RGB', (WIDTH, HEIGHT), COLORS['WHITE']).size
NewImage == <<WIDTH, HEIGHT>>

CadInit ==
    /\ variant \in {"inky", "macos"}
    /\ font \in Fonts
    /\ album_data \in Albums
    /\ pc = "new"
    /\ img_size = <<0, 0>>
    /\ cover = "none"
    /\ y_pos = 0
    /\ title_lines = <<>>
    /\ track_i = 0
    /\ drawn = <<>>
    /\ qr_box = NoBox
    /\ error = ""
    /\ main_pc = "compose"
    /\ saved = FALSE
    /\ displayed = FALSE
    /\ exit_status = -1
    /\ prev = NoResult
    /\ CallsIdle
    /\ FitIdle

\* an exception leaves create_album_display at the step named
CadRaise(step) ==
    /\ pc = step
    /\ pc' = "raised"
    /\ error' = step
    /\ UNCHANGED <<variant, font, album_data, img_size, cover, y_pos, title_lines,
                   track_i, drawn, qr_box>>
    /\ UNCHANGED cad_frame

\* img = Image.new(...); the dark-gray left region
CadNew ==
    /\ pc = "new"
    /\ img_size' = NewImage
    /\ pc' = "cover"
    /\ UNCHANGED <<variant, font, album_data, error, cover, y_pos, title_lines, track_i,
                   drawn, qr_box>>
    /\ UNCHANGED cad_frame

\* download_image(url): the image opened, or None after any exception of
\* requests.get, raise_for_status or Image.open
DownloadOutcomes == {"image", "None"}

\* the cover: downloaded and dithered, or the placeholder; pasted at (30, 90)
CadCover ==
    /\ pc = "cover"
    /\ \E downloaded \in DownloadOutcomes :
           cover' = IF Truthy(album_data.cover_url) /\ downloaded = "image"
                    THEN "dithered"
                    ELSE "placeholder"
    /\ pc' = "date"
    /\ UNCHANGED <<variant, font, album_data, error, img_size, y_pos, title_lines, track_i,
                   drawn, qr_box>>
    /\ UNCHANGED cad_frame

\* download_image returned an image whose pixel data cannot be read or
\* converted: process_cover_for_eink raises, outside every try
CadCoverRaise ==
    /\ Truthy(album_data.cover_url)
    /\ CadRaise("cover")

\* format_date(None) is None, and draw.textbbox of None raises
CadDateRaise ==
    /\ format_date(Get(album_data.release_date, <<>>)) = None
    /\ CadRaise("date")

\* the year under the cover
CadDate ==
    /\ pc = "date"
    /\ format_date(Get(album_data.release_date, <<>>)) # None
    /\ LET font_date == load_font(14, TRUE)
           date_text == truncate_text(format_date(Get(album_data.release_date, <<>>)),
                                      300, font_date)
           bbox == textbbox(0, date_text, font_date)
           date_width == bbox.right - bbox.left
       IN  drawn' = Append(drawn,
                           Draw("date", date_text, (COVER_WIDTH - date_width) \div 2, 410))
    /\ pc' = "badge"
    /\ UNCHANGED <<variant, font, album_data, error, img_size, cover, y_pos, title_lines,
                   track_i, qr_box>>
    /\ UNCHANGED cad_frame

\* the badge "ALBUM DU JOUR" with its music symbol
CadBadge ==
    /\ pc = "badge"
    /\ LET badge_font == load_font(11, TRUE)
           badge_font_music == load_font(16, TRUE)
           music_symbol == <<"note">>
           badge_text_only == <<"A", "L", "B", "U", "M", " ", "D", "U", " ",
                                "J", "O", "U", "R">>
           bbox_music == textbbox(0, music_symbol, badge_font_music)
           music_width == bbox_music.right - bbox_music.left
           badge_height == badge_font.bh + 14
       IN  /\ drawn' = drawn \o
                  << Draw("badge", music_symbol, x_start + 12, 40 + 3),
                     Draw("badge", badge_text_only, x_start + 12 + music_width + 8, 40 + 7) >>
           /\ y_pos' = 40 + badge_height + 22
    /\ pc' = "title"
    /\ UNCHANGED <<variant, font, album_data, error, img_size, cover, title_lines, track_i,
                   qr_box>>
    /\ UNCHANGED cad_frame

\* None has no split
CadTitleRaise ==
    /\ Get(album_data.title, <<"A", "l", "b", "u", "m">>) = None
    /\ CadRaise("title")

\* the title, wrapped on at most two lines
CadTitle ==
    /\ pc = "title"
    /\ Get(album_data.title, <<"A", "l", "b", "u", "m">>) # None
    /\ LET font_title == load_font(38, TRUE)
           title == Get(album_data.title, <<"A", "l", "b", "u", "m">>)
           lines == LimitLines(GreedyLines(title, font_title), font_title)
       IN  /\ title_lines' = lines
           /\ drawn' = drawn \o
                  [k \in 1..Len(lines) |->
                      Draw("title", lines[k], x_start, y_pos + 44 * (k - 1))]
           /\ y_pos' = y_pos + 44 * Len(lines)
    /\ pc' = "artist"
    /\ UNCHANGED <<variant, font, album_data, error, img_size, cover, track_i, qr_box>>
    /\ UNCHANGED cad_frame

\* truncate_text(None, ...) raises in draw.textbbox
CadArtistRaise ==
    /\ Get(album_data.artist, <<"A", "r", "t", "i", "s", "t", "e">>) = None
    /\ CadRaise("artist")

\* the artist name
CadArtist ==
    /\ pc = "artist"
    /\ Get(album_data.artist, <<"A", "r", "t", "i", "s", "t", "e">>) # None
    /\ LET font_artist == load_font(24, FALSE)
           artist == truncate_text(Get(album_data.artist, <<"A", "r", "t", "i", "s", "t", "e">>),
                                   max_title_width, font_artist)
       IN  drawn' = Append(drawn, Draw("artist", artist, x_start, y_pos))
    /\ y_pos' = y_pos + 44
    /\ pc' = "separator"
    /\ UNCHANGED <<variant, font, album_data, error, img_size, cover, title_lines, track_i,
                   qr_box>>
    /\ UNCHANGED cad_frame

\* the separator line and the section label
CadSeparator ==
    /\ pc = "separator"
    /\ drawn' = Append(drawn, Draw("tracks_title", TracksTitle, x_start, y_pos + 22))
    /\ y_pos' = y_pos + 22 + TracksTitleAdvance
    /\ pc' = "tracks"
    /\ UNCHANGED <<variant, font, album_data, error, img_size, cover, title_lines, track_i,
                   qr_box>>
    /\ UNCHANGED cad_frame

available_widthMutFull(in_playlist) == max_track_width

\* max_track_width - 25 if in_playlist else max_track_width
available_width(in_playlist) ==
    IF in_playlist THEN max_track_width - 25 ELSE max_track_width

\* None[:5] raises
CadTracksRaise ==
    /\ GetTracks(album_data.tracks) = NoneTracks
    /\ CadRaise("tracks")

\* one iteration of the loop over tracks
CadTrack ==
    /\ pc = "tracks"
    /\ GetTracks(album_data.tracks) # NoneTracks
    /\ LET tracks == TakeTracks(GetTracks(album_data.tracks))
       IN  /\ track_i < Len(tracks)
           /\ LET i == track_i + 1
                  track_data == tracks[i]
                  track_name == track_data.name
                  in_playlist == IF track_data.form = "dict"
                                 THEN track_data.in_playlist
                                 ELSE FALSE
                  font_track_name == load_font(14, FALSE)
                  track_x == x_start + 34
                  track_name_truncated ==
                      truncate_text(track_name, available_width(in_playlist),
                                    font_track_name)
                  bbox == textbbox(track_x, track_name_truncated, font_track_name)
                  asterisk_x == bbox.right + 8
              IN  /\ drawn' = drawn \o
                         << Draw("track_num", Format02(i), x_start, y_pos),
                            Draw("track_name", track_name_truncated, track_x, y_pos) >>
                         \o (IF in_playlist
                             THEN <<Draw("marker", MarkerText, asterisk_x, y_pos - 2)>>
                             ELSE <<>>)
                  /\ track_i' = i
    /\ y_pos' = y_pos + 25
    /\ UNCHANGED <<variant, font, album_data, error, pc, img_size, cover, title_lines, qr_box>>
    /\ UNCHANGED cad_frame

\* the loop over tracks is over
CadTracksDone ==
    /\ pc = "tracks"
    /\ GetTracks(album_data.tracks) # NoneTracks
    /\ track_i >= Len(TakeTracks(GetTracks(album_data.tracks)))
    /\ pc' = "qr"
    /\ UNCHANGED <<variant, font, album_data, error, img_size, cover, y_pos, title_lines,
                   track_i, drawn, qr_box>>
    /\ UNCHANGED cad_frame

\* generate_qr_code(url, size): the size of the image it returns
generate_qr_code(url, size) == <<size, size>>

pasteMutCorner(qr_img) ==
    [x |-> WIDTH - 35, y |-> HEIGHT - 140, w |-> qr_img[1], h |-> qr_img[2]]

\* img.paste(qr_img, (qr_x, qr_y)): the box of img that qr_img replaces
paste(qr_img) ==
    [x |-> WIDTH - 135, y |-> HEIGHT - 140, w |-> qr_img[1], h |-> qr_img[2]]

\* the QR code, when the record has a link, and return img
CadQr ==
    /\ pc = "qr"
    /\ qr_box' = IF Truthy(album_data.spotify_url)
                 THEN paste(generate_qr_code(album_data.spotify_url, 100))
                 ELSE qr_box
    /\ pc' = "done"
    /\ UNCHANGED <<variant, font, album_data, error, img_size, cover, y_pos, title_lines,
                   track_i, drawn>>
    /\ UNCHANGED cad_frame

----------------------------------------------------------------------------
(* main: compose, save, display *)

\* the status sys.exit gives for the exception caught
ExitStatusMutZero(exc) == 0

ExitStatus(exc) == IF exc = "KeyboardInterrupt" THEN 0 ELSE 1

MainFrame == <<cad_vars, fit_vars, call_vars, prev>>

\* img.save(output_path), reached when create_album_display has returned
MainSave ==
    /\ main_pc = "compose"
    /\ pc = "done"
    /\ \E written \in BOOLEAN :
           IF written
           THEN saved' = TRUE /\ main_pc' = "display" /\ exit_status' = exit_status
           ELSE saved' = saved /\ main_pc' = "exited"
                /\ exit_status' = ExitStatus("Exception")
    /\ UNCHANGED displayed
    /\ UNCHANGED MainFrame

\* display_on_inky(img): shows the image, or prints its own error
MainDisplay ==
    /\ main_pc = "display"
    /\ displayed' \in BOOLEAN
    /\ main_pc' = "finish"
    /\ UNCHANGED <<saved, exit_status>>
    /\ UNCHANGED MainFrame

\* main returns
MainReturn ==
    /\ main_pc = "finish"
    /\ main_pc' = "exited"
    /\ exit_status' = 0
    /\ UNCHANGED <<saved, displayed>>
    /\ UNCHANGED MainFrame

\* except Exception: the exception create_album_display let out
MainExcept ==
    /\ main_pc = "compose"
    /\ pc = "raised"
    /\ main_pc' = "exited"
    /\ exit_status' = ExitStatus("Exception")
    /\ UNCHANGED <<saved, displayed>>
    /\ UNCHANGED MainFrame

\* except KeyboardInterrupt: the user interrupts the try block
MainInterrupt ==
    /\ main_pc \in {"compose", "display", "finish"}
    /\ pc # "raised"
    /\ main_pc' = "exited"
    /\ exit_status' = ExitStatus("KeyboardInterrupt")
    /\ UNCHANGED <<saved, displayed>>
    /\ UNCHANGED MainFrame

CadNext ==
    \/ CadNew
    \/ CadCover
    \/ CadCoverRaise
    \/ CadDate
    \/ CadDateRaise
    \/ CadBadge
    \/ CadTitle
    \/ CadTitleRaise
    \/ CadArtist
    \/ CadArtistRaise
    \/ CadSeparator
    \/ CadTrack
    \/ CadTracksRaise
    \/ CadTracksDone
    \/ CadQr

Next ==
    \/ main_pc = "compose" /\ CadNext
    \/ MainSave
    \/ MainDisplay
    \/ MainReturn
    \/ MainExcept
    \/ MainInterrupt

Spec == CadInit /\ [][Next]_vars

----------------------------------------------------------------------------
(* create_album_display called twice with the same record *)

\* what the call that just ended gave: the canvas, or the exception
Result ==
    [outcome |-> IF pc = "done" THEN "returned" ELSE "raised",
     img_size |-> img_size, cover |-> cover, drawn |-> drawn, qr_box |-> qr_box]

\* the second call, with the record, fonts and code of the first
CadAgain ==
    /\ pc \in {"done", "raised"}
    /\ prev = NoResult
    /\ prev' = Result
    /\ pc' = "new"
    /\ img_size' = <<0, 0>>
    /\ cover' = "none"
    /\ y_pos' = 0
    /\ title_lines' = <<>>
    /\ track_i' = 0
    /\ drawn' = <<>>
    /\ qr_box' = NoBox
    /\ error' = ""
    /\ UNCHANGED <<variant, font, album_data>>
    /\ UNCHANGED <<main_pc, saved, displayed, exit_status>>
    /\ UNCHANGED <<fit_vars, call_vars>>

NextTwice == CadNext \/ CadAgain

SpecTwice == CadInit /\ [][NextTwice]_vars

----------------------------------------------------------------------------
(* The two copies of create_album_display on the same record *)

\* after the copy of inky_album_display has returned, the copy of macos.py is
\* called with the same record and the same fonts
CadOtherCopy ==
    /\ pc = "done"
    /\ variant = "inky"
    /\ prev = NoResult
    /\ prev' = Result
    /\ variant' = "macos"
    /\ pc' = "new"
    /\ img_size' = <<0, 0>>
    /\ cover' = "none"
    /\ y_pos' = 0
    /\ title_lines' = <<>>
    /\ track_i' = 0
    /\ drawn' = <<>>
    /\ qr_box' = NoBox
    /\ error' = ""
    /\ UNCHANGED <<font, album_data>>
    /\ UNCHANGED <<main_pc, saved, displayed, exit_status>>
    /\ UNCHANGED <<fit_vars, call_vars>>

NextCopies == CadNext \/ CadOtherCopy

SpecCopies == CadInit /\ [][NextCopies]_vars

----------------------------------------------------------------------------
(* Claims about create_album_display, checked under Spec *)

DrawnOf(kind) == SelectSeq(drawn, LAMBDA d : d.kind = kind)

TitleGiven == Get(album_data.title, <<"A", "l", "b", "u", "m">>)

TitleDrawn == pc \in {"artist", "separator", "tracks", "qr", "done"}

TracksDrawn == pc \in {"qr", "done"}

\* the tracks the record gives, and the rows the composer may render
TracksGiven == GetTracks(album_data.tracks)
RowsExpected == IF Len(TracksGiven) < 5 THEN Len(TracksGiven) ELSE 5

\* text is name, or a prefix of name followed by the ellipsis
IsFitOf(text, name) ==
    \/ text = name
    \/ \E j \in 0..Len(name) : text = SubSeq(name, 1, j) \o Ellipsis

\* the width of the pixels a text covers, as the wrap measures it:
\* bbox[2] - bbox[0].  It is never more than RenderedWidth.
InkWidth(text, f) == textbbox(0, text, f).right - textbbox(0, text, f).left

\* C4: for every title the composer draws at most 2 title lines.
C4_AtMostTwoTitleLines ==
    /\ Len(DrawnOf("title")) <= 2
    /\ Len(title_lines) <= 2

\* a title whose greedy wrap has three lines or more was drawn on two
C4_Witness ==
    /\ TitleDrawn
    /\ Len(GreedyLines(TitleGiven, font)) > 2
    /\ Len(DrawnOf("title")) = 2

\* C5: whenever the greedy wrap of the title yields more than 2 lines, the 2nd
\* line drawn ends with the ellipsis marker.
C5_DroppedRemainderHasEllipsis ==
    (TitleDrawn /\ Len(GreedyLines(TitleGiven, font)) > 2)
        => /\ Len(DrawnOf("title")) = 2
           /\ EndsWith(DrawnOf("title")[2].text, Ellipsis)

\* C6: a title of one single word wider than the title budget is drawn as
\* exactly one line, truncated with an ellipsis so that it fits the budget.
C6_LongSingleWordTruncated ==
    (/\ TitleDrawn
     /\ Len(split(TitleGiven)) = 1
     /\ InkWidth(split(TitleGiven)[1], font) > max_title_width
     /\ RenderedWidth(Ellipsis, font) <= max_title_width)
        => /\ Len(DrawnOf("title")) = 1
           /\ EndsWith(DrawnOf("title")[1].text, Ellipsis)
           /\ InkWidth(DrawnOf("title")[1].text, font) <= max_title_width

\* the pixel-width budget of the region a text is drawn into
Budget(kind) ==
    CASE kind = "date"       -> 300
      [] kind = "title"      -> 270
      [] kind = "artist"     -> 270
      [] kind = "track_name" -> 235

FittedKinds == {"date", "title", "artist", "track_name"}

\* C7: every text drawn into a region (year, title lines, artist, track names)
\* has rendered width at most the budget of its region, for budgets at least
\* the ellipsis width.  The width taken is the smaller of the two the code
\* measures, the width of the pixels covered.
C7_EveryTextWithinBudget ==
    \A i \in 1..Len(drawn) :
        (drawn[i].kind \in FittedKinds
         /\ Budget(drawn[i].kind) >= RenderedWidth(Ellipsis, font))
            => InkWidth(drawn[i].text, font) <= Budget(drawn[i].kind)

\* the year, the artist and the track names are within their budgets: of the
\* fitted texts only a title line can overflow
NonTitleTextsWithinBudget ==
    \A i \in 1..Len(drawn) :
        (drawn[i].kind \in FittedKinds \ {"title"}
         /\ Budget(drawn[i].kind) >= RenderedWidth(Ellipsis, font))
            => RenderedWidth(drawn[i].text, font) <= Budget(drawn[i].kind)

\* C8: for a track list of any length N exactly min(N, 5) rows are rendered:
\* the first min(N, 5) tracks in input order, row k labelled with the 2-digit
\* index k and placed exactly 25 pixels below row k-1.
C8_FirstFiveTracksInOrder ==
    LET nums == DrawnOf("track_num")
        names == DrawnOf("track_name")
    IN  /\ Len(nums) = track_i /\ Len(names) = track_i
        /\ track_i <= RowsExpected
        /\ TracksDrawn => track_i = RowsExpected
        /\ \A k \in 1..Len(nums) :
               /\ nums[k].text = <<"0", Digits[k + 1]>>
               /\ IsFitOf(names[k].text, TracksGiven[k].name)
               /\ names[k].y = nums[k].y
               /\ k > 1 => nums[k].y = nums[k - 1].y + 25

\* a list of more than five tracks was rendered as five rows
C8_Witness ==
    /\ pc = "done"
    /\ Len(TracksGiven) > 5
    /\ Len(DrawnOf("track_num")) = 5
    /\ TracksGiven[1].name # TracksGiven[2].name

\* the rendered track entries whose in_playlist flag is true
FlaggedRows ==
    {k \in 1..RowsExpected :
        TracksGiven[k].form = "dict" /\ TracksGiven[k].in_playlist}

\* C9: at most one highlight marker is drawn, and one is drawn if and only if
\* exactly one rendered track entry has in_playlist true.
C9_AtMostOneMarker ==
    pc = "done"
        => /\ Len(DrawnOf("marker")) <= 1
           /\ Len(DrawnOf("marker")) = 1 <=> Cardinality(FlaggedRows) = 1

\* C10: every canvas create_album_display returns has size exactly 800 x 480,
\* whatever the input.
C10_CanvasSize ==
    pc \notin {"idle", "new"} => img_size = <<800, 480>>

\* a canvas returned for an empty title, no tracks, no cover and no link
C10_Witness ==
    /\ pc = "done"
    /\ album_data.title = <<>>
    /\ TracksGiven = <<>>
    /\ cover = "placeholder"
    /\ ~Truthy(album_data.spotify_url)
    /\ img_size = <<800, 480>>

----------------------------------------------------------------------------
(* Claims about missing fields and the cover, checked under Spec *)

\* the fields a record may leave out: each is absent, null or empty here
OptionalFieldsMissing ==
    /\ album_data.title \in {Absent, None}
       \/ album_data.artist \in {Absent, None}
       \/ album_data.release_date \in {Absent, None}
       \/ album_data.cover_url \in {Absent, None}
       \/ album_data.spotify_url \in {Absent, None}
       \/ album_data.tracks \in {AbsentTracks, NoneTracks, <<>>}

\* C11: create_album_display never raises because an optional field is
\* missing: whatever combination of cover, release date, link URL, title and
\* artist is absent or null, and whatever the track list, no step that reads
\* one of these fields lets an exception out.
C11_NeverRaisesForMissingField ==
    OptionalFieldsMissing => error \notin {"date", "title", "artist", "tracks"}

\* C12: no failure to obtain, decode, resize or quantize the cover aborts the
\* composition: past the cover step the canvas holds the dithered cover or
\* the placeholder, and the cover step never lets an exception out.
C12_CoverFailureUsesPlaceholder ==
    /\ error # "cover"
    /\ pc \in {"date", "badge", "title", "artist", "separator", "tracks", "qr", "done"}
           => cover \in {"dithered", "placeholder"}

----------------------------------------------------------------------------
(* Claims about the QR code, checked under Spec *)

\* C14: the QR code is pasted if and only if the record has a non-empty link
\* URL; when pasted it covers exactly the 100x100 box whose top-left corner is
\* (WIDTH-135, HEIGHT-140) = (665, 340), fully inside the canvas; when the URL
\* is absent, null or empty nothing is pasted into that box.
C14_QrBoxIffLinkUrl ==
    /\ pc = "done" => (qr_box # NoBox <=> Truthy(album_data.spotify_url))
    /\ ~Truthy(album_data.spotify_url) => qr_box = NoBox
    /\ qr_box # NoBox =>
           /\ qr_box = [x |-> 665, y |-> 340, w |-> 100, h |-> 100]
           /\ qr_box.x >= 0 /\ qr_box.x + qr_box.w <= img_size[1]
           /\ qr_box.y >= 0 /\ qr_box.y + qr_box.h <= img_size[2]

C14_Witness ==
    /\ pc = "done"
    /\ qr_box # NoBox
    /\ album_data.spotify_url = <<"u">>

----------------------------------------------------------------------------
(* Claims about two calls with one record, checked under SpecTwice *)

\* C16: create_album_display is a deterministic function of the album
\* record alone: the second of two calls with equal records
\* returns the canvas the first returned, pixel for pixel, whatever the
\* network or any other I/O does.
C16_SameRecordSameCanvas ==
    (pc = "done" /\ prev.outcome = "returned") => Result = prev

----------------------------------------------------------------------------
(* Claims about main, checked under Spec *)

\* C17: the canvas is saved or displayed only after every step of
\* create_album_display has completed; when a step raises, no image is saved
\* and none is displayed in that run, and main exits with status 1.
C17_SaveAndDisplayOnlyAfterComposition ==
    /\ (saved \/ displayed) => pc = "done"
    /\ error # "" => ~saved /\ ~displayed
    /\ (main_pc = "exited" /\ error # "") => exit_status = 1
    /\ (main_pc = "compose" /\ pc = "raised") => ENABLED MainExcept

C17_Witness ==
    /\ main_pc = "exited"
    /\ error = "title"
    /\ exit_status = 1
    /\ ~saved
    /\ ~displayed

----------------------------------------------------------------------------
(* Claims about the marker of a highlighted row, checked under Spec *)

\* the place in drawn of the name of row k, and whether a marker follows it
NamePlace(k) ==
    CHOOSE i \in 1..Len(drawn) :
        drawn[i].kind = "track_name"
        /\ Cardinality({j \in 1..i : drawn[j].kind = "track_name"}) = k

MarkerAfter(i) == i < Len(drawn) /\ drawn[i + 1].kind = "marker"

RowFlagged(k) == TracksGiven[k].form = "dict" /\ TracksGiven[k].in_playlist

\* every row drawn has its name fitted to the width of its case, and a
\* marker 8 pixels after the name's right edge exactly when it is highlighted
RowsFittedAndMarked ==
    \A k \in 1..track_i :
        LET i == NamePlace(k)
            track_x == x_start + 34
        IN  IF RowFlagged(k)
            THEN /\ drawn[i].text
                        = truncate_text(TracksGiven[k].name, max_track_width - 25, font)
                 /\ MarkerAfter(i)
                 /\ drawn[i + 1].x = textbbox(track_x, drawn[i].text, font).right + 8
            ELSE /\ drawn[i].text = truncate_text(TracksGiven[k].name, max_track_width, font)
                 /\ ~MarkerAfter(i)

----------------------------------------------------------------------------
(* Claims about the title wrap, checked under Spec *)

\* the words of the lines, one line after the other
RECURSIVE WordsOf(_)
WordsOf(lines) ==
    IF lines = <<>> THEN <<>> ELSE split(Head(lines)) \o WordsOf(Tail(lines))

\* words joined by single blanks
RECURSIVE Joined(_)
Joined(words) ==
    IF words = <<>> THEN <<>>
    ELSE IF Len(words) = 1 THEN words[1]
    ELSE words[1] \o <<" ">> \o Joined(Tail(words))

\* C23: the title wrap is the greedy packing of the whitespace-separated
\* words: a word joins the current line while the line's width stays within
\* the budget, otherwise it starts a new line; a word wider than the budget
\* stands alone on its line, unsplit; no line is empty; and the words of the
\* lines produced (before the 2-line cap) are the title's words in order.
C23_GreedyWordPacking ==
    (pc = "artist" /\ TitleGiven # None) =>
        LET lines == GreedyLines(TitleGiven, font)
        IN  /\ title_lines = LimitLines(lines, font)
            /\ WordsOf(lines) = split(TitleGiven)
            /\ \A k \in 1..Len(lines) :
                   /\ lines[k] # <<>>
                   /\ lines[k] = Joined(split(lines[k]))
                   /\ InkWidth(lines[k], font) <= max_title_width
                          \/ Len(split(lines[k])) = 1
            /\ \A k \in 1..(Len(lines) - 1) :
                   InkWidth(lines[k] \o <<" ">> \o split(lines[k + 1])[1], font)
                       > max_title_width

\* a title of two words: the second, wider than the budget, alone and whole
\* on the second line
C23_Witness ==
    /\ pc = "artist"
    /\ TitleGiven = <<"a", " ", "W", "W">>
    /\ title_lines = <<<<"a">>, <<"W", "W">>>>
    /\ InkWidth(<<"W", "W">>, font) > max_title_width

----------------------------------------------------------------------------
(* Claims about the prefix truncate_text keeps, checked under SpecFit *)

\* the prefix of n characters followed by the ellipsis fits max_width
PrefixFits(n) ==
    Fits(SubSeq(fit_orig, 1, n) \o Ellipsis, fit_max_width, fit_font)

\* C24: when the text does not fit, truncate_text returns p + ellipsis where
\* p is the longest prefix of the text, the text itself included, such that
\* p + ellipsis has rendered width <= max_width, and p is empty when no
\* prefix qualifies; it never removes more characters than needed.
C24_LongestFittingPrefix ==
    (fit_pc = "done" /\ ~Fits(fit_orig, fit_max_width, fit_font)) =>
        \E n \in 0..Len(fit_orig) :
            /\ fit_result = SubSeq(fit_orig, 1, n) \o Ellipsis
            /\ fit_removed = Len(fit_orig) - n
            /\ n > 0 => PrefixFits(n)
            /\ \A m \in (n + 1)..Len(fit_orig) : ~PrefixFits(m)

\* a text cut to a prefix that is neither empty nor all but one character
C24_Witness ==
    /\ fit_pc = "done"
    /\ ~Fits(fit_orig, fit_max_width, fit_font)
    /\ Len(fit_orig) = 4
    /\ fit_removed = 2
    /\ fit_result = SubSeq(fit_orig, 1, 2) \o Ellipsis

----------------------------------------------------------------------------
(* Claims about the two copies of the composer, checked under SpecCopies *)

\* the layout decisions in a list of draw calls: for each call its kind and
\* its y, and its text when it is a title line, the artist or a track name
Layout(calls) ==
    [i \in 1..Len(calls) |->
        [kind |-> calls[i].kind,
         y |-> calls[i].y,
         text |-> IF calls[i].kind \in {"title", "artist", "track_name"}
                  THEN calls[i].text
                  ELSE <<>>]]

\* C25: the two copies of create_album_display make the same layout
\* decisions for the same album record: the same title lines, fitted artist
\* and track strings, the same highlighted rows, and the same y coordinate
\* for every drawn element, each track row included.
C25_CopiesSameLayout ==
    (pc = "done" /\ variant = "macos" /\ prev.outcome = "returned")
        => Layout(drawn) = Layout(prev.drawn)

\* the copies agree on the strings drawn and on the rows highlighted
CopiesSameStrings ==
    (pc = "done" /\ variant = "macos" /\ prev.outcome = "returned") =>
        /\ Len(drawn) = Len(prev.drawn)
        /\ \A i \in 1..Len(drawn) :
               /\ drawn[i].kind = prev.drawn[i].kind
               /\ drawn[i].x = prev.drawn[i].x
               /\ drawn[i].kind \notin {"tracks_title", "marker"}
                      => drawn[i].text = prev.drawn[i].text
               /\ drawn[i].kind \notin {"track_num", "track_name", "marker"}
                      => drawn[i].y = prev.drawn[i].y

----------------------------------------------------------------------------
(* Claims about the pages of get_random_album_from_playlist, checked under
   SpecPagesFair *)

PageLoopOver == ra_call.pc \in {"paged", "returned None", "choose"}

\* a page that is empty or has no next link has been received
PageStopReceived ==
    /\ ra_call.stops # <<>>
    /\ ra_call.stops[Len(ra_call.stops)]

PagesInOrder ==
    /\ \A j \in 1..Len(ra_call.requested) : ra_call.requested[j] = 100 * (j - 1)
    /\ \A j \in 1..(Len(ra_call.stops) - 1) : ~ra_call.stops[j]
    /\ Len(ra_call.requested) = Len(ra_call.stops)
    /\ ra_call.pc = "fetch" => ~PageStopReceived
    /\ PageLoopOver =>
           /\ PageStopReceived
           /\ ra_call.playlist_tracks = ra_call.sent

\* C26: the pagination loop of get_random_album_from_playlist requests pages
\* at offsets 0, 100, 200, ... in increasing order, stops at the first page
\* that is empty or has no next link (no page is requested after one), ends
\* whenever the service returns such a page, and has then collected every
\* non-null track of every page requested, once each and in page order.
C26_PagesInOrderUntilStopPage ==
    /\ []PagesInOrder
    /\ (PageStopReceived ~> PageLoopOver)

\* three pages were requested, the second with a null entry, and the loop
\* ended on the third
C26_Witness ==
    /\ ra_call.pc = "paged"
    /\ ra_call.requested = <<0, 100, 200>>
    /\ ra_call.playlist_tracks = <<TrackAt(0, 1), TrackAt(100, 2), TrackAt(200, 1)>>
    /\ ra_call.sent = ra_call.playlist_tracks

----------------------------------------------------------------------------
(* Claims about update_env_file called twice, checked under SpecEnvTwice *)

\* the lines of the file before the first call (none when it was missing)
LinesBefore ==
    IF env_call.before = Missing THEN <<>> ELSE LinesOf(env_call.before)

\* the place of the first line starting with SPOTIFY_PLAYLIST_ID=, 0 when
\* there is none
FirstKeyLine(lines) ==
    IF \E k \in 1..Len(lines) : startswith(lines[k], Key)
    THEN CHOOSE k \in 1..Len(lines) :
             /\ startswith(lines[k], Key)
             /\ \A j \in 1..(k - 1) : ~startswith(lines[j], Key)
    ELSE 0

OtherLinesKept ==
    LET lines == LinesOf(env_call.file)
    IN  /\ Len(lines) >= Len(LinesBefore)
        /\ \A j \in 1..Len(LinesBefore) :
               j # FirstKeyLine(LinesBefore) => lines[j] = LinesBefore[j]

AtMostOneLineAdded == Len(LinesOf(env_call.file)) <= Len(LinesBefore) + 1

\* C27: update_env_file leaves every line of the file other than the first
\* line starting with SPOTIFY_PLAYLIST_ID= unchanged and in the same order,
\* adds at most one line, and a second call with the same playlist id leaves
\* the content the first call wrote.
C27_OtherLinesKeptAndIdempotent ==
    /\ (env_call.pc = "returned" /\ env_call.calls = 1)
           => (OtherLinesKept /\ AtMostOneLineAdded)
    /\ (env_call.pc = "returned" /\ env_call.calls = 2)
           => env_call.file = env_call.once

\* the first call adds at most one line, whatever the file held
EnvAtMostOneLineAdded ==
    (env_call.pc = "returned" /\ env_call.calls = 1) => AtMostOneLineAdded

\* the claim holds for every file that is missing, is empty, ends with an end
\* of line, or has a line starting with SPOTIFY_PLAYLIST_ID=
EnvKeptWhenLastLineEnded ==
    (\/ env_call.before \in {Missing, <<>>}
     \/ env_call.before[Len(env_call.before)] = "\n"
     \/ FirstKeyLine(LinesBefore) # 0)
        => C27_OtherLinesKeptAndIdempotent

----------------------------------------------------------------------------
(* main of the playlist selector *)

MaxFound == 2

\* what the user types at a prompt
MenuInputs == {<<"1">>, <<" ", "1">>, <<"2">>, <<"3">>, <<"4">>, <<"5">>, <<"x">>, <<>>}
QueryInputs == {<<>>, <<" ">>, <<"x">>}
SelectionInputs ==
    {<<"q">>, <<"Q">>, <<>>, <<"x">>, <<"1", "x">>, <<"-", "1">>, <<"+", "1">>, <<" ", "1">>}
        \cup {Dec(n) : n \in 0..(MaxFound + 1)}
ConfirmInputs == {<<"o">>, <<"O">>, <<" ", "o">>, <<"n">>, <<"o", "o">>, <<>>}

\* playlist['public'] as the service sends it
PublicFlags == {"true", "false", "null"}

\* search_playlists looks among the public playlists ("Recherche des
\* playlists publiques par nom"): the flag is true, also when the key is left
\* out (playlist.get('public', True)), or null
SearchFlags == {"true", "null"}

\* the playlists a lookup returns: the public flag of each, its place in the
\* list standing for its id
FoundLists(choice) ==
    TextsUpTo(IF choice = <<"1">> THEN SearchFlags ELSE PublicFlags, MaxFound)

\* str.lower() on what the user types
LowerCase(text) ==
    [k \in 1..Len(text) |->
        CASE text[k] = "Q" -> "q"
          [] text[k] = "O" -> "o"
          [] OTHER -> text[k]]

ValueError == [ok |-> FALSE, n |-> 0]

\* int(selection) on a stripped text: an optional sign and one digit or more,
\* anything else raises ValueError
int(text) ==
    LET signed == text # <<>> /\ Head(text) \in {"-", "+"}
        digits == IF signed THEN Tail(text) ELSE text
    IN  IF digits = <<>> \/ ~AllDigits(digits)
        THEN ValueError
        ELSE [ok |-> TRUE,
              n |-> IF signed /\ Head(text) = "-" THEN 0 - NumVal(digits) ELSE NumVal(digits)]

\* 0 <= idx < len(playlists)
InRange(idx, playlists) == 0 <= idx /\ idx < Len(playlists)

IsPrivateMutNever(public) == FALSE

\* not selected['public'], not info['public']
IsPrivate(public) == public # "true"

FileUnchanged == [written |-> FALSE, from |-> "", k |-> 0]

sel_frame ==
    <<fit_vars, cad_vars, main_vars, date_call, quant_call, up_call, pa_call, env_call,
      ra_call, inky_call>>

SelInit ==
    /\ sel_call = [pc |-> "start", choice |-> <<>>, playlists |-> <<>>, selection |-> <<>>,
                   selected |-> 0, public |-> "", warned |-> FALSE, confirm |-> <<>>,
                   error |-> FALSE, writes |-> 0, file |-> FileUnchanged]
    /\ ra_call = NoRaCall
    /\ inky_call = NoInkyCall
    /\ date_call = NoDateCall
    /\ quant_call = NoQuantCall
    /\ up_call = NoUpCall
    /\ pa_call = NoPaCall
    /\ env_call = NoEnvCall
    /\ font = NoFont
    /\ FitIdle
    /\ CadIdle
    /\ MainIdle

\* if not CLIENT_ID or not CLIENT_SECRET: sys.exit(1); the current playlist
\* is looked up and shown, a failure of that lookup is printed
SelStart ==
    /\ sel_call.pc = "start"
    /\ \E credentials \in BOOLEAN :
           sel_call' = [sel_call EXCEPT !.pc = IF credentials THEN "menu" ELSE "exit 1"]
    /\ UNCHANGED sel_frame

\* choice = input("Ton choix (1-4): ").strip() and the branch on it
SelChoice ==
    /\ sel_call.pc = "menu"
    /\ \E typed \in MenuInputs :
           LET choice == strip(typed)
           IN  sel_call' = [sel_call EXCEPT
                               !.choice = choice,
                               !.pc = CASE choice \in {<<"1">>, <<"2">>} -> "query"
                                        [] choice = <<"3">> -> "url"
                                        [] OTHER -> "returned"]
    /\ UNCHANGED sel_frame

\* query = input(...).strip() (option 1), username = input(...).strip()
\* (option 2): an empty one ends the run
SelQuery ==
    /\ sel_call.pc = "query"
    /\ \E typed \in QueryInputs :
           sel_call' = [sel_call EXCEPT
                           !.pc = IF strip(typed) = <<>> THEN "returned" ELSE "lookup"]
    /\ UNCHANGED sel_frame

\* playlists = manager.search_playlists(query, limit=20) (option 1),
\* manager.get_user_playlists(username, limit=50) (option 2): the call raises,
\* or returns a list; an empty list ends the run
SelLookup ==
    /\ sel_call.pc = "lookup"
    /\ \/ sel_call' = [sel_call EXCEPT !.pc = "raised", !.error = TRUE]
       \/ \E playlists \in FoundLists(sel_call.choice) :
              sel_call' = [sel_call EXCEPT
                              !.playlists = playlists,
                              !.pc = IF playlists = <<>> THEN "returned" ELSE "select"]
    /\ UNCHANGED sel_frame

\* selection = input(...).strip(); 'q' cancels; idx = int(selection) - 1;
\* an index in range selects the playlist; in option 2 a playlist that is not
\* public is warned about and asks for a confirmation
SelSelection ==
    /\ sel_call.pc = "select"
    /\ \E typed \in SelectionInputs :
           LET selection == strip(typed)
               number == int(selection)
               idx == number.n - 1
           IN  IF LowerCase(selection) = <<"q">> \/ number = ValueError
                     \/ ~InRange(idx, sel_call.playlists)
               THEN sel_call' = [sel_call EXCEPT !.selection = selection, !.pc = "returned"]
               ELSE LET public == sel_call.playlists[idx + 1]
                        asks == sel_call.choice = <<"2">> /\ IsPrivate(public)
                    IN  sel_call' = [sel_call EXCEPT
                                        !.selection = selection,
                                        !.selected = idx + 1,
                                        !.public = public,
                                        !.warned = asks,
                                        !.pc = IF asks THEN "confirm" ELSE "update"]
    /\ UNCHANGED sel_frame

\* confirm = input("Continuer quand même? (o/n): ").strip().lower();
\* if confirm != 'o': return
SelConfirm ==
    /\ sel_call.pc = "confirm"
    /\ \E typed \in ConfirmInputs :
           LET confirm == LowerCase(strip(typed))
           IN  sel_call' = [sel_call EXCEPT
                               !.confirm = confirm,
                               !.pc = IF confirm # <<"o">> THEN "returned" ELSE "update"]
    /\ UNCHANGED sel_frame

\* playlist_input = input("URL ou ID de la playlist: ").strip(): an empty one
\* ends the run
SelUrl ==
    /\ sel_call.pc = "url"
    /\ \E typed \in QueryInputs :
           sel_call' = [sel_call EXCEPT
                           !.pc = IF strip(typed) = <<>> THEN "returned" ELSE "info"]
    /\ UNCHANGED sel_frame

\* info = manager.get_playlist_info(playlist_input): the call raises and the
\* error is printed, or the playlist is shown, with a warning when it is not
\* public
SelInfo ==
    /\ sel_call.pc = "info"
    /\ \/ sel_call' = [sel_call EXCEPT !.pc = "returned", !.error = TRUE]
       \/ \E public \in PublicFlags :
              sel_call' = [sel_call EXCEPT
                              !.public = public,
                              !.warned = IsPrivate(public),
                              !.pc = "use"]
    /\ UNCHANGED sel_frame

\* confirm = input("Utiliser cette playlist? (o/n): ").strip().lower();
\* if confirm == 'o': update_env_file(info['id'])
SelUse ==
    /\ sel_call.pc = "use"
    /\ \E typed \in ConfirmInputs :
           LET confirm == LowerCase(strip(typed))
           IN  sel_call' = [sel_call EXCEPT
                               !.confirm = confirm,
                               !.pc = IF confirm = <<"o">> THEN "update" ELSE "returned"]
    /\ UNCHANGED sel_frame

\* update_env_file(selected['id']), update_env_file(info['id'])
SelUpdate ==
    /\ sel_call.pc = "update"
    /\ sel_call' = [sel_call EXCEPT
                       !.pc = "returned",
                       !.writes = @ + 1,
                       !.file = IF sel_call.choice = <<"3">>
                                THEN [written |-> TRUE, from |-> "info", k |-> 0]
                                ELSE [written |-> TRUE, from |-> "list",
                                      k |-> sel_call.selected]]
    /\ UNCHANGED sel_frame

SelNext ==
    \/ SelStart
    \/ SelChoice
    \/ SelQuery
    \/ SelLookup
    \/ SelSelection
    \/ SelConfirm
    \/ SelUrl
    \/ SelInfo
    \/ SelUse
    \/ SelUpdate

SpecSelector == SelInit /\ [][SelNext]_vars

----------------------------------------------------------------------------
(* Claims about the playlist selector, checked under SpecSelector *)

\* the number typed at the selection prompt names a playlist of the list
ValidPick ==
    /\ int(sel_call.selection) # ValueError
    /\ int(sel_call.selection).n \in 1..Len(sel_call.playlists)

SelAsksInOptionsTwoAndThree ==
    /\ sel_call.choice = <<"1">> => ~sel_call.warned /\ sel_call.confirm = <<>>
    /\ (sel_call.writes = 1 /\ sel_call.choice \in {<<"2">>, <<"3">>}
            /\ sel_call.public # "true")
           => sel_call.warned /\ sel_call.confirm = <<"o">>

----------------------------------------------------------------------------
(* display_on_inky, called by main after the image is saved *)

\* the sizes of the image handed over: the canvas of create_album_display,
\* and an image of another size
ImageSizes == {NewImage, <<600, 448>>}

\* inky.resolution of the panels auto() may detect
Resolutions == {<<800, 480>>, <<600, 448>>, <<640, 400>>}

\* what a call into the driver may raise
Raised == {"ImportError", "TypeError", "RuntimeError", "KeyboardInterrupt"}

CaughtMutImportOnly(exc) == exc = "ImportError"

\* except ImportError: ... except Exception as e: ...
Caught(exc) == exc \in {"ImportError", "TypeError", "RuntimeError"}

\* the except clause that prints the error
Handler(exc) == IF exc = "ImportError" THEN "ImportError" ELSE "Exception"

NeedsResizeMutNever(size, resolution) == FALSE

\* if img.size != inky.resolution:
NeedsResize(size, resolution) == size # resolution

RetriesMutAlways(exc) == TRUE

\* except TypeError: around the first set_image
Retries(exc) == exc = "TypeError"

inky_frame ==
    <<fit_vars, cad_vars, prev, saved, exit_status, date_call, quant_call, up_call,
      pa_call, env_call, ra_call, sel_call>>

\* main has saved the image and calls display_on_inky(img)
InkyInit ==
    /\ inky_call \in
           {[pc |-> "import", given |-> size, img |-> size, resolution |-> <<0, 0>>,
             resized |-> FALSE, sent |-> <<>>, shows |-> 0, raised |-> "",
             printed |-> ""] : size \in ImageSizes}
    /\ ra_call = NoRaCall
    /\ sel_call = NoSelCall
    /\ date_call = NoDateCall
    /\ quant_call = NoQuantCall
    /\ up_call = NoUpCall
    /\ pa_call = NoPaCall
    /\ env_call = NoEnvCall
    /\ font = NoFont
    /\ FitIdle
    /\ CadIdle
    /\ main_pc = "display"
    /\ saved = TRUE
    /\ displayed = FALSE
    /\ exit_status = -1
    /\ prev = NoResult

\* exc is raised inside the try block: a matching except clause prints it and
\* the function returns, otherwise it leaves the function
InkyRaise(call, exc) ==
    IF Caught(exc)
    THEN /\ inky_call' = [call EXCEPT
                             !.pc = "returned", !.raised = exc, !.printed = Handler(exc)]
         /\ main_pc' = "finish"
         /\ UNCHANGED displayed
    ELSE /\ inky_call' = [call EXCEPT !.pc = "propagated", !.raised = exc]
         /\ UNCHANGED <<main_pc, displayed>>

\* from inky.auto import auto
InkyImport ==
    /\ main_pc = "display"
    /\ inky_call.pc = "import"
    /\ \/ /\ inky_call' = [inky_call EXCEPT !.pc = "auto"]
          /\ UNCHANGED <<main_pc, displayed>>
       \/ InkyRaise(inky_call, "ImportError")
    /\ UNCHANGED inky_frame

\* inky = auto(ask_user=False, verbose=True)
InkyAuto ==
    /\ main_pc = "display"
    /\ inky_call.pc = "auto"
    /\ \/ /\ \E resolution \in Resolutions :
                 inky_call' = [inky_call EXCEPT !.pc = "size", !.resolution = resolution]
          /\ UNCHANGED <<main_pc, displayed>>
       \/ \E exc \in Raised : InkyRaise(inky_call, exc)
    /\ UNCHANGED inky_frame

\* if img.size != inky.resolution: img = img.resize(inky.resolution, ...)
InkyResize ==
    /\ main_pc = "display"
    /\ inky_call.pc = "size"
    /\ IF NeedsResize(inky_call.img, inky_call.resolution)
       THEN \/ /\ inky_call' = [inky_call EXCEPT
                                   !.pc = "set_image",
                                   !.img = inky_call.resolution,
                                   !.resized = TRUE]
               /\ UNCHANGED <<main_pc, displayed>>
            \/ \E exc \in Raised : InkyRaise(inky_call, exc)
       ELSE /\ inky_call' = [inky_call EXCEPT !.pc = "set_image"]
            /\ UNCHANGED <<main_pc, displayed>>
    /\ UNCHANGED inky_frame

\* one call of set_image as the driver saw it
SetImageCall(saturation, size, outcome) ==
    [saturation |-> saturation, size |-> size, outcome |-> outcome]

\* try: inky.set_image(img, saturation=0.5) except TypeError: ...
InkySetImage ==
    /\ main_pc = "display"
    /\ inky_call.pc = "set_image"
    /\ \/ /\ inky_call' = [inky_call EXCEPT
                              !.pc = "show",
                              !.sent = Append(@, SetImageCall(TRUE, inky_call.img, "ok"))]
          /\ UNCHANGED <<main_pc, displayed>>
       \/ \E exc \in Raised :
              IF Retries(exc)
              THEN /\ inky_call' = [inky_call EXCEPT
                                       !.pc = "retry",
                                       !.sent = Append(@, SetImageCall(TRUE, inky_call.img, exc))]
                   /\ UNCHANGED <<main_pc, displayed>>
              ELSE InkyRaise([inky_call EXCEPT
                                 !.sent = Append(@, SetImageCall(TRUE, inky_call.img, exc))],
                             exc)
    /\ UNCHANGED inky_frame

\* inky.set_image(img) in the except TypeError clause
InkyRetry ==
    /\ main_pc = "display"
    /\ inky_call.pc = "retry"
    /\ \/ /\ inky_call' = [inky_call EXCEPT
                              !.pc = "show",
                              !.sent = Append(@, SetImageCall(FALSE, inky_call.img, "ok"))]
          /\ UNCHANGED <<main_pc, displayed>>
       \/ \E exc \in Raised :
              InkyRaise([inky_call EXCEPT
                            !.sent = Append(@, SetImageCall(FALSE, inky_call.img, exc))],
                        exc)
    /\ UNCHANGED inky_frame

\* inky.show(), then the function returns
InkyShow ==
    /\ main_pc = "display"
    /\ inky_call.pc = "show"
    /\ \/ /\ inky_call' = [inky_call EXCEPT !.pc = "returned", !.shows = @ + 1]
          /\ displayed' = TRUE
          /\ main_pc' = "finish"
       \/ \E exc \in Raised :
              InkyRaise([inky_call EXCEPT !.shows = @ + 1], exc)
    /\ UNCHANGED inky_frame

\* the except clauses of main for what display_on_inky let out
MainExceptDisplay ==
    /\ main_pc = "display"
    /\ inky_call.pc = "propagated"
    /\ main_pc' = "exited"
    /\ exit_status' = ExitStatus(IF inky_call.raised = "KeyboardInterrupt"
                                 THEN "KeyboardInterrupt" ELSE "Exception")
    /\ UNCHANGED <<saved, displayed>>
    /\ UNCHANGED MainFrame

InkyNext ==
    \/ InkyImport
    \/ InkyAuto
    \/ InkyResize
    \/ InkySetImage
    \/ InkyRetry
    \/ InkyShow
    \/ MainExceptDisplay
    \/ MainReturn

SpecInky == InkyInit /\ [][InkyNext]_vars

----------------------------------------------------------------------------
(* Claims about display_on_inky, checked under SpecInky *)

\* set_image has been called and the call, or its retry, is over
PastSetImage == inky_call.pc \in {"show", "returned", "propagated"} /\ inky_call.sent # <<>>

\* C29: in display_on_inky show() is called only after a set_image call has
\* succeeded; set_image is called again, without the saturation parameter,
\* exactly when the first call raised TypeError; and the image is resized to
\* the panel resolution before set_image exactly when its size differs from
\* that resolution.
C29_ShowAfterSetImageRetryOnTypeError ==
    /\ (inky_call.shows > 0 \/ inky_call.pc = "show") =>
           /\ inky_call.sent # <<>>
           /\ inky_call.sent[Len(inky_call.sent)].outcome = "ok"
    /\ inky_call.shows <= 1
    /\ Len(inky_call.sent) <= 2
    /\ inky_call.sent # <<>> => inky_call.sent[1].saturation
    /\ Len(inky_call.sent) = 2 =>
           /\ inky_call.sent[1].outcome = "TypeError"
           /\ ~inky_call.sent[2].saturation
    /\ PastSetImage =>
           (Len(inky_call.sent) = 2 <=> inky_call.sent[1].outcome = "TypeError")
    /\ inky_call.pc = "retry" => inky_call.sent[1].outcome = "TypeError"
    /\ \A k \in 1..Len(inky_call.sent) :
           /\ inky_call.sent[k].size = inky_call.resolution
           /\ inky_call.resized <=> inky_call.given # inky_call.resolution

\* the canvas is sent to a 600x448 panel: resized, refused with the
\* saturation parameter, accepted without it, and shown
C29_Witness ==
    /\ inky_call.pc = "returned"
    /\ inky_call.given = <<800, 480>>
    /\ inky_call.resized
    /\ inky_call.sent = <<SetImageCall(TRUE, <<600, 448>>, "TypeError"),
                          SetImageCall(FALSE, <<600, 448>>, "ok")>>
    /\ inky_call.shows = 1
    /\ displayed

\* the driver module is missing, or the panel detection, set_image or show
\* has raised an exception
DisplayFailed == inky_call.raised \in {"ImportError", "TypeError", "RuntimeError"}

\* C30: display_on_inky never lets an exception out to its caller: when the
\* driver module is missing or the panel detection, set_image or show fails,
\* the error is only printed and the function returns, so main still reports
\* completion and does not exit with a failure status, though nothing was
\* displayed.
C30_DisplayFailureOnlyPrinted ==
    DisplayFailed =>
        /\ inky_call.pc = "returned"
        /\ inky_call.printed = Handler(inky_call.raised)
        /\ ~displayed
        /\ main_pc \in {"finish", "exited"}
        /\ main_pc = "finish" => ENABLED MainReturn
        /\ main_pc = "exited" => exit_status = 0

\* show() raised: the error was printed and main has exited with status 0
C30_Witness ==
    /\ inky_call.raised = "RuntimeError"
    /\ inky_call.shows = 1
    /\ inky_call.printed = "Exception"
    /\ ~displayed
    /\ main_pc = "exited"
    /\ exit_status = 0

====
